---- MODULE Spec2Model ----
(***************************************************************************)
(* Workflow canonicalization and equivalence (custom_nodes/workflow.py),   *)
(* the JSON helpers it rests on (custom_nodes/utils.py) and the save node  *)
(* that deduplicates workflows on disk (custom_nodes/save_workflow.py).    *)
(*                                                                         *)
(* JSON values are tagged records [t, v]:                                  *)
(*   "int"   v an integer            "str"  v a string                     *)
(*   "bool"  v a BOOLEAN             "float" v = [neg, hi, lo]             *)
(*   "list"  v a sequence of values  "null" v = 0   (Python None)          *)
(*   "dict"  v a sequence of [k, v] pairs in insertion order, keys unique  *)
(* Text (the output of stringify) is a sequence of character codes, so     *)
(* that Python's string comparison is the lexicographic order on it.       *)
(***************************************************************************)
EXTENDS Integers, Sequences, FiniteSets, TLC

VARIABLES
    pc,         \* position of the current scenario / call
    wf,         \* the workflow G handed to the engine
    other,      \* the second workflow G'
    rel,        \* how G' was obtained from G
    ignored,    \* ignored_nodes: sequence of node ids
    sorted1,    \* outcome of sort_workflow(G)
    sorted2,    \* outcome of sort_workflow(G')
    result,     \* outcome of the last engine call
    files,      \* the output directory: file name -> text of the file
    last        \* what the last save_workflow call did

vars == <<pc, wf, other, rel, ignored, sorted1, sorted2, result, files, last>>

(***************************************************************************)
(* Text                                                                    *)
(***************************************************************************)

\* Code points of the strings that occur in the modelled workflows.
Chars(s) ==
    CASE s = "" -> <<>>
      [] s = "inputs" -> <<105, 110, 112, 117, 116, 115>>
      [] s = ".json" -> <<46, 106, 115, 111, 110>>
      [] s = "_meta" -> <<95, 109, 101, 116, 97>>
      [] s = "is_changed" -> <<105, 115, 95, 99, 104, 97, 110, 103, 101, 100>>
      [] s = "_displayed_text" -> <<95, 100, 105, 115, 112, 108, 97, 121, 101, 100, 95, 116, 101, 120, 116>>
      [] s = "class_type" -> <<99, 108, 97, 115, 115, 95, 116, 121, 112, 101>>
      [] s = "title" -> <<116, 105, 116, 108, 101>>
      [] s = "x" -> <<120>>
      [] s = "y" -> <<121>>
      [] s = "1" -> <<49>>
      [] s = "2" -> <<50>>
      [] s = "3" -> <<51>>
      [] s = "4" -> <<52>>
      [] s = "5" -> <<53>>
      [] s = "9" -> <<57>>
      [] s = "a" -> <<97>>
      [] s = "b" -> <<98>>
      [] s = "A" -> <<65>>
      [] s = "B" -> <<66>>

\* The strings above, and the string a text spells.
Strings ==
    {"", "inputs", ".json", "_meta", "is_changed", "_displayed_text", "class_type",
     "title", "x", "y", "1", "2", "3", "4", "5", "9", "a", "b", "A", "B"}
Unchars(codes) == CHOOSE s \in Strings : Chars(s) = codes

\* Python's str comparison s < t: lexicographic by code point.
StrLess(s, t) ==
    LET n == IF Len(s) < Len(t) THEN Len(s) ELSE Len(t)
        diff == {i \in 1..n : s[i] # t[i]}
    IN  IF diff = {}
        THEN Len(s) < Len(t)
        ELSE LET i == CHOOSE j \in diff : \A k \in diff : j <= k
             IN  s[i] < t[i]

RECURSIVE DecDigits(_)
\* str(n) for n >= 0.
DecDigits(n) ==
    IF n < 10 THEN <<48 + n>> ELSE Append(DecDigits(n \div 10), 48 + (n % 10))

\* str(n) for a Python int.
IntStr(n) == IF n < 0 THEN <<45>> \o DecDigits(-n) ELSE DecDigits(n)

RECURSIVE Pow10(_)
Pow10(k) == IF k = 0 THEN 1 ELSE 10 * Pow10(k - 1)

RECURSIVE StripZeros(_)
\* A digit string without its trailing '0's.
StripZeros(d) ==
    IF d # <<>> /\ d[Len(d)] = 48 THEN StripZeros(SubSeq(d, 1, Len(d) - 1)) ELSE d

(***************************************************************************)
(* Floats.  A float is [neg, hi, lo] and stands for the decimal            *)
(*   (-1)^neg * (hi * 10^9 + lo) * 10^-10,   0 <= lo < 10^9,               *)
(* that is: hi holds the integer part and the first decimal, lo the next   *)
(* nine decimals.  Ten decimals resolve FLOAT_COMPARISON_EPSILON = 1e-9    *)
(* (ten units) and fit TLC's 32-bit integers.                              *)
(***************************************************************************)

Giga == Pow10(9)

\* round(x, precision): Python rounds half to even.
Round(f, precision) ==
    IF precision >= 10 THEN f
    ELSE IF precision = 0 THEN
        LET q == f.hi \div 10
            d == f.hi % 10
            up == d > 5 \/ (d = 5 /\ f.lo > 0) \/ (d = 5 /\ f.lo = 0 /\ q % 2 = 1)
        IN  [neg |-> f.neg, hi |-> 10 * (q + (IF up THEN 1 ELSE 0)), lo |-> 0]
    ELSE IF precision = 1 THEN
        LET up == 2 * f.lo > Giga \/ (2 * f.lo = Giga /\ f.hi % 2 = 1)
        IN  [neg |-> f.neg, hi |-> f.hi + (IF up THEN 1 ELSE 0), lo |-> 0]
    ELSE
        LET m == Pow10(10 - precision)
            q == f.lo \div m
            r == f.lo % m
            up == 2 * r > m \/ (2 * r = m /\ q % 2 = 1)
            rlo == (q + (IF up THEN 1 ELSE 0)) * m
        IN  IF rlo = Giga THEN [neg |-> f.neg, hi |-> f.hi + 1, lo |-> 0]
            ELSE [neg |-> f.neg, hi |-> f.hi, lo |-> rlo]

\* math.isclose(a, b, abs_tol=1e-9) with its default rel_tol=1e-09:
\*   |a - b| <= max(rel_tol * max(|a|, |b|), abs_tol).
\* In units of 10^-10: |a - b| <= max(max(|a|, |b|) / 10^9, 10), and the
\* integer |a - b| is at most max(|a|, |b|) / 10^9 iff it is at most max(hi).
IsClose(a, b) ==
    LET dh == b.hi - a.hi
        mx == IF a.hi > b.hi THEN a.hi ELSE b.hi
        tol == IF mx > 10 THEN mx ELSE 10
    IN  IF dh > 1 \/ dh < -1 THEN FALSE
        ELSE LET d == dh * Giga + b.lo - a.lo
                 ad == IF d < 0 THEN -d ELSE d
             IN  ad <= tol

RECURSIVE NormalizeFrom(_, _)
NormalizeFrom(f, precision) ==
    IF precision >= 16 THEN f
    ELSE IF IsClose(f, Round(f, precision)) THEN Round(f, precision)
    ELSE NormalizeFrom(f, precision + 1)

\* normalize_float(x) with the default epsilon.
normalize_float(f) == NormalizeFrom(f, 0)

\* repr(x) of a float, as json.dumps writes it.
FloatStr(f) ==
    LET sign == IF f.neg THEN <<45>> ELSE <<>>
    IN  IF f.hi = 0 /\ f.lo > 0 /\ f.lo < Pow10(6)
        THEN \* 0 < |x| < 1e-4: exponent notation, d[.ddd]e-XX
             LET ds == DecDigits(f.lo)
                 ex == 11 - Len(ds)
                 mant == StripZeros(ds)
                 exs == IF ex < 10 THEN <<48>> \o DecDigits(ex) ELSE DecDigits(ex)
             IN  sign \o <<mant[1]>>
                 \o (IF Len(mant) > 1 THEN <<46>> \o SubSeq(mant, 2, Len(mant)) ELSE <<>>)
                 \o <<101, 45>> \o exs
        ELSE LET frac == <<48 + (f.hi % 10)>>
                          \o [i \in 1..9 |-> 48 + ((f.lo \div Pow10(9 - i)) % 10)]
                 fs == StripZeros(frac)
             IN  sign \o DecDigits(f.hi \div 10) \o <<46>>
                 \o (IF fs = <<>> THEN <<48>> ELSE fs)

(***************************************************************************)
(* JSON values                                                             *)
(***************************************************************************)

JInt(n) == [t |-> "int", v |-> n]
JStr(s) == [t |-> "str", v |-> s]
JBool(b) == [t |-> "bool", v |-> b]
JNull == [t |-> "null", v |-> 0]
JFloat(neg, hi, lo) == [t |-> "float", v |-> [neg |-> neg, hi |-> hi, lo |-> lo]]
JList(s) == [t |-> "list", v |-> s]
JDict(ps) == [t |-> "dict", v |-> ps]
KV(k, v) == [k |-> k, v |-> v]

IsDict(j) == j.t = "dict"
IsList(j) == j.t = "list"

\* The keys of a dict, in insertion order.
Keys(d) == [i \in 1..Len(d.v) |-> d.v[i].k]
KeySet(d) == {d.v[i].k : i \in 1..Len(d.v)}
HasKey(d, k) == k \in KeySet(d)
\* d[k] for a key the dict holds.
Get(d, k) == d.v[CHOOSE i \in 1..Len(d.v) : d.v[i].k = k].v

\* seq filtered by a predicate on its elements, order kept.
RECURSIVE SelectPairs(_, _)
SelectPairs(ps, drop) ==
    IF ps = <<>> THEN <<>>
    ELSE IF ps[1].k \in drop THEN SelectPairs(Tail(ps), drop)
    ELSE <<ps[1]>> \o SelectPairs(Tail(ps), drop)

\* d[k] = v: replaces the value in place, or appends a new key.
SetKey(d, k, v) ==
    IF HasKey(d, k)
    THEN JDict([i \in 1..Len(d.v) |-> IF d.v[i].k = k THEN KV(k, v) ELSE d.v[i]])
    ELSE JDict(Append(d.v, KV(k, v)))

RECURSIVE JoinText(_)
\* ",".join(parts)
JoinText(parts) ==
    IF parts = <<>> THEN <<>>
    ELSE IF Len(parts) = 1 THEN parts[1]
    ELSE parts[1] \o <<44>> \o JoinText(Tail(parts))

RECURSIVE stringify(_)
\* json.dumps(obj, separators=(',', ':'))
stringify(j) ==
    CASE j.t = "int" -> IntStr(j.v)
      [] j.t = "float" -> FloatStr(j.v)
      [] j.t = "str" -> <<34>> \o Chars(j.v) \o <<34>>
      [] j.t = "bool" -> IF j.v THEN <<116, 114, 117, 101>> ELSE <<102, 97, 108, 115, 101>>
      [] j.t = "null" -> <<110, 117, 108, 108>>
      [] j.t = "list" -> <<91>> \o JoinText([i \in 1..Len(j.v) |-> stringify(j.v[i])]) \o <<93>>
      [] j.t = "dict" ->
            <<123>> \o JoinText([i \in 1..Len(j.v) |->
                        <<34>> \o Chars(j.v[i].k) \o <<34, 58>> \o stringify(j.v[i].v)])
            \o <<125>>

\* A variant of compare_json whose first term is (s1 >= s2).
compare_json_ge(obj1, obj2) ==
    LET s1 == stringify(obj1)
        s2 == stringify(obj2)
    IN  (IF ~StrLess(s1, s2) THEN 1 ELSE 0) - (IF StrLess(s1, s2) THEN 1 ELSE 0)

\* compare_json(obj1, obj2): -1, 0 or 1 by the order of the two texts.
compare_json(obj1, obj2) ==
    LET s1 == stringify(obj1)
        s2 == stringify(obj2)
    IN  (IF StrLess(s2, s1) THEN 1 ELSE 0) - (IF StrLess(s1, s2) THEN 1 ELSE 0)

\* sorted(seq, key=...) where keys[i] is the text key of seq[i].  Python's
\* sort is stable: elements with equal keys keep their order.
SortedByInsertion(seq, keys) == seq

\* A sort that is not stable: elements with equal keys come out in reverse.
SortedByTiesReversed(seq, keys) ==
    LET n == Len(seq)
        ks == <<>> \o keys
        rank == <<>> \o [i \in 1..n |->
                    Cardinality({j \in 1..n : StrLess(ks[j], ks[i])})
                    + Cardinality({j \in (i + 1)..n : ks[j] = ks[i]})]
    IN  [p \in 1..n |-> seq[CHOOSE i \in 1..n : rank[i] = p - 1]]

SortedBy(seq, keys) ==
    LET n == Len(seq)
        ks == <<>> \o keys
        rank == <<>> \o [i \in 1..n |->
                    Cardinality({j \in 1..n : StrLess(ks[j], ks[i])})
                    + Cardinality({j \in 1..(i - 1) : ks[j] = ks[i]})]
    IN  [p \in 1..n |-> seq[CHOOSE i \in 1..n : rank[i] = p - 1]]

RECURSIVE canonicalize_json(_)
canonicalize_json_reversed(j) ==
    IF j.t = "list"
    THEN JList([i \in 1..Len(j.v) |-> canonicalize_json(j.v[Len(j.v) + 1 - i])])
    ELSE j

\* canonicalize_json(obj): floats normalized, dict keys sorted, lists in order.
canonicalize_json(j) ==
    CASE j.t = "float" -> [t |-> "float", v |-> normalize_float(j.v)]
      [] j.t = "dict" ->
            LET cs == [i \in 1..Len(j.v) |-> KV(j.v[i].k, canonicalize_json(j.v[i].v))]
            IN  JDict(SortedBy(cs, [i \in 1..Len(cs) |-> Chars(cs[i].k)]))
      [] j.t = "list" -> JList([i \in 1..Len(j.v) |-> canonicalize_json(j.v[i])])
      [] OTHER -> j

(***************************************************************************)
(* Outcomes.  A Python call either returns a value or raises.              *)
(***************************************************************************)

Ok(v) == [ok |-> TRUE, val |-> v]
Raise(e) == [ok |-> FALSE, err |-> e]

\* The outcome of running the steps of a loop in order: the first exception
\* raised, or the sequence of the values returned.
InOrder(outs) ==
    LET bad == {i \in 1..Len(outs) : ~outs[i].ok}
    IN  IF bad = {}
        THEN Ok([i \in 1..Len(outs) |-> outs[i].val])
        ELSE outs[CHOOSE i \in bad : \A j \in bad : i <= j]

(***************************************************************************)
(* custom_nodes/workflow.py                                                *)
(***************************************************************************)

REFERENCE_LENGTH == 2
INPUTS_KEY == "inputs"
METADATA_KEYS == {"_meta", "is_changed"}
IGNORED_INPUTS_KEYS == {"_displayed_text"}

\* A variant of the iteration that does not check the type of inputs and
\* keeps inputs that are not a dict as they are.
StripNodeUnchecked(node_obj) ==
    IF ~IsDict(node_obj) THEN Ok(node_obj)
    ELSE IF ~HasKey(node_obj, INPUTS_KEY) THEN Raise("KeyError")
    ELSE LET new_node == SelectPairs(node_obj.v, METADATA_KEYS \cup {INPUTS_KEY})
             inputs == Get(node_obj, INPUTS_KEY)
         IN  IF ~IsDict(inputs) THEN Ok(JDict(Append(new_node, KV(INPUTS_KEY, inputs))))
             ELSE Ok(JDict(Append(new_node,
                        KV(INPUTS_KEY, JDict(SelectPairs(inputs.v, IGNORED_INPUTS_KEYS))))))

\* A variant of the iteration that removes "_meta" only.
StripNodeKeepChanged(node_obj) ==
    IF ~IsDict(node_obj) THEN Ok(node_obj)
    ELSE IF ~HasKey(node_obj, INPUTS_KEY) THEN Raise("KeyError")
    ELSE LET new_node == SelectPairs(node_obj.v, {"_meta", INPUTS_KEY})
             inputs == Get(node_obj, INPUTS_KEY)
         IN  IF ~IsDict(inputs) THEN Raise("ValueError")
             ELSE Ok(JDict(Append(new_node,
                        KV(INPUTS_KEY, JDict(SelectPairs(inputs.v, IGNORED_INPUTS_KEYS))))))

\* One iteration of strip_metadata's loop.
StripNode(node_obj) ==
    IF ~IsDict(node_obj) THEN Ok(node_obj)
    ELSE IF ~HasKey(node_obj, INPUTS_KEY) THEN Raise("KeyError")
    ELSE LET new_node == SelectPairs(node_obj.v, METADATA_KEYS \cup {INPUTS_KEY})
             inputs == Get(node_obj, INPUTS_KEY)
         IN  IF ~IsDict(inputs) THEN Raise("ValueError")
             ELSE Ok(JDict(Append(new_node,
                        KV(INPUTS_KEY, JDict(SelectPairs(inputs.v, IGNORED_INPUTS_KEYS))))))

\* strip_metadata(workflow), workflow a dict.
strip_metadata(workflow) ==
    LET outs == InOrder([i \in 1..Len(workflow.v) |-> StripNode(workflow.v[i].v)])
    IN  IF ~outs.ok THEN outs
        ELSE Ok(JDict([i \in 1..Len(workflow.v) |-> KV(workflow.v[i].k, outs.val[i])]))

\* The test of remap_node_ids for "v is a reference to another node".
IsReference(v) == IsList(v) /\ Len(v.v) = REFERENCE_LENGTH /\ v.v[1].t = "str"

\* A variant that numbers the nodes from 1.
IdMappingFromOne(workflow) ==
    [k \in KeySet(workflow) |-> CHOOSE i \in 1..Len(workflow.v) : workflow.v[i].k = k]

\* id_mapping: node id -> index of the node in iteration order (from 0).
IdMapping(workflow) ==
    [k \in KeySet(workflow) |-> (CHOOSE i \in 1..Len(workflow.v) : workflow.v[i].k = k) - 1]

\* A variant that looks the id up with a default and leaves a Reference to an
\* unknown id as it is.
RemapInputLenient(v, id_mapping) ==
    IF IsReference(v) /\ v.v[1].v \in DOMAIN id_mapping
    THEN Ok(JList(<<JInt(id_mapping[v.v[1].v]), v.v[2]>>))
    ELSE Ok(v)

\* One input of a node, remapped.
RemapInput(v, id_mapping) ==
    IF IsReference(v)
    THEN IF v.v[1].v \in DOMAIN id_mapping
         THEN Ok(JList(<<JInt(id_mapping[v.v[1].v]), v.v[2]>>))
         ELSE Raise("KeyError")
    ELSE Ok(v)

\* One iteration of remap_node_ids's loop.
RemapNode(node_obj, id_mapping) ==
    IF ~IsDict(node_obj) THEN Ok(node_obj)
    ELSE IF ~HasKey(node_obj, INPUTS_KEY) THEN Raise("KeyError")
    ELSE LET inputs == Get(node_obj, INPUTS_KEY)
         IN  IF ~IsDict(inputs) THEN Raise("ValueError")
             ELSE LET outs == InOrder([i \in 1..Len(inputs.v) |->
                                          RemapInput(inputs.v[i].v, id_mapping)])
                  IN  IF ~outs.ok THEN outs
                      ELSE Ok(SetKey(node_obj, INPUTS_KEY,
                                JDict([i \in 1..Len(inputs.v) |->
                                          KV(inputs.v[i].k, outs.val[i])])))

\* remap_node_ids(workflow), workflow a dict: the list of remapped nodes and
\* the id mapping.
remap_node_ids(workflow) ==
    LET id_mapping == IdMapping(workflow)
        outs == InOrder([i \in 1..Len(workflow.v) |-> RemapNode(workflow.v[i].v, id_mapping)])
    IN  IF ~outs.ok THEN outs
        ELSE Ok([nodes |-> outs.val, id_mapping |-> id_mapping])

\* A variant of the sort that keeps the insertion order.
SortNodesInsertionOrder(canonical_nodes) == canonical_nodes

\* The sort of sort_workflow: dict(sorted(items, key=stringify(value))).
SortNodes(canonical_nodes) ==
    JDict(SortedBy(canonical_nodes.v,
                   [i \in 1..Len(canonical_nodes.v) |-> stringify(canonical_nodes.v[i].v)]))

\* A variant that canonicalizes a workflow that is not a dict.
sort_workflow_canonical(workflow) ==
    IF ~IsDict(workflow) THEN Ok(canonicalize_json(workflow))
    ELSE LET stripped == strip_metadata(workflow)
         IN  IF ~stripped.ok THEN stripped
             ELSE Ok(SortNodes(JDict([i \in 1..Len(stripped.val.v) |->
                        KV(stripped.val.v[i].k, canonicalize_json(stripped.val.v[i].v))])))

\* sort_workflow(workflow)
sort_workflow(workflow) ==
    IF ~IsDict(workflow) THEN Ok(workflow)
    ELSE LET stripped == strip_metadata(workflow)
         IN  IF ~stripped.ok THEN stripped
             ELSE Ok(SortNodes(JDict([i \in 1..Len(stripped.val.v) |->
                        KV(stripped.val.v[i].k, canonicalize_json(stripped.val.v[i].v))])))

\* clear_inputs(node)
clear_inputs(node) ==
    IF IsDict(node) THEN SetKey(node, INPUTS_KEY, JDict(<<>>)) ELSE node

\* The loop that clears the inputs of the nodes at the indices remapped_ignored
\* (indices from 0) in a remapped list.  In the first list every index exists;
\* in the other one an index beyond its end is skipped.
ClearAll(nodes, remapped_ignored) ==
    [i \in 1..Len(nodes) |->
        IF \E n \in 1..Len(remapped_ignored) : remapped_ignored[n] = i - 1
        THEN clear_inputs(nodes[i]) ELSE nodes[i]]

\* A variant that compares arguments that are not dicts by value, as
\* src/nodes/workflow.py does, instead of raising.
are_sorted_workflows_equal_by_value(workflow, other_workflow, ignored_nodes) ==
    IF ~IsDict(workflow) \/ ~IsDict(other_workflow) THEN Ok(workflow = other_workflow)
    ELSE LET r1 == remap_node_ids(workflow)
         IN  IF ~r1.ok THEN r1
             ELSE IF \E n \in 1..Len(ignored_nodes) :
                        ignored_nodes[n] \notin DOMAIN r1.val.id_mapping
             THEN Raise("KeyError")
             ELSE LET remapped_ignored == [n \in 1..Len(ignored_nodes) |->
                                              r1.val.id_mapping[ignored_nodes[n]]]
                      r2 == remap_node_ids(other_workflow)
                  IN  IF ~r2.ok THEN r2
                      ELSE Ok(compare_json(JList(ClearAll(r1.val.nodes, remapped_ignored)),
                                           JList(ClearAll(r2.val.nodes, remapped_ignored))) = 0)

\* A variant that leaves out the ignored ids the first workflow does not
\* declare.
are_sorted_workflows_equal_known_ids(workflow, other_workflow, ignored_nodes) ==
    IF ~IsDict(workflow) \/ ~IsDict(other_workflow) THEN Raise("ValueError")
    ELSE LET r1 == remap_node_ids(workflow)
         IN  IF ~r1.ok THEN r1
             ELSE LET known == SelectSeq(ignored_nodes, LAMBDA id : id \in DOMAIN r1.val.id_mapping)
                      remapped_ignored == [n \in 1..Len(known) |-> r1.val.id_mapping[known[n]]]
                      r2 == remap_node_ids(other_workflow)
                  IN  IF ~r2.ok THEN r2
                      ELSE Ok(compare_json(JList(ClearAll(r1.val.nodes, remapped_ignored)),
                                           JList(ClearAll(r2.val.nodes, remapped_ignored))) = 0)

\* are_sorted_workflows_equal(workflow, other_workflow, ignored_nodes)
are_sorted_workflows_equal(workflow, other_workflow, ignored_nodes) ==
    IF ~IsDict(workflow) \/ ~IsDict(other_workflow) THEN Raise("ValueError")
    ELSE LET r1 == remap_node_ids(workflow)
         IN  IF ~r1.ok THEN r1
             ELSE IF \E n \in 1..Len(ignored_nodes) :
                        ignored_nodes[n] \notin DOMAIN r1.val.id_mapping
             THEN Raise("KeyError")
             ELSE LET remapped_ignored == [n \in 1..Len(ignored_nodes) |->
                                              r1.val.id_mapping[ignored_nodes[n]]]
                      r2 == remap_node_ids(other_workflow)
                  IN  IF ~r2.ok THEN r2
                      ELSE Ok(compare_json(JList(ClearAll(r1.val.nodes, remapped_ignored)),
                                           JList(ClearAll(r2.val.nodes, remapped_ignored))) = 0)

(***************************************************************************)
(* nodes/workflow.py, the earlier variant of the engine.  Its utils.py has *)
(* the same canonicalize_json, stringify and compare_json.                 *)
(***************************************************************************)

\* One iteration of the loop of nodes/workflow.py strip_metadata: inputs
\* that are not a dict have no items().
nodes_StripNode(node_obj) ==
    IF ~IsDict(node_obj) THEN Ok(node_obj)
    ELSE IF ~HasKey(node_obj, "inputs") THEN Raise("KeyError")
    ELSE IF ~IsDict(Get(node_obj, "inputs")) THEN Raise("AttributeError")
    ELSE Ok(JDict(Append(SelectPairs(node_obj.v, {"_meta", "is_changed", "inputs"}),
                         KV("inputs", JDict(SelectPairs(Get(node_obj, "inputs").v,
                                                        {"_displayed_text"}))))))

\* nodes/workflow.py strip_metadata(workflow)
nodes_strip_metadata(workflow) ==
    LET outs == InOrder([i \in 1..Len(workflow.v) |-> nodes_StripNode(workflow.v[i].v)])
    IN  IF ~outs.ok THEN outs
        ELSE Ok(JDict([i \in 1..Len(workflow.v) |-> KV(workflow.v[i].k, outs.val[i])]))

\* nodes/workflow.py remap_node_ids(workflow): the list only; the loop is
\* the one of custom_nodes/workflow.py.
nodes_remap_node_ids(workflow) ==
    InOrder([i \in 1..Len(workflow.v) |-> RemapNode(workflow.v[i].v, IdMapping(workflow))])

\* nodes/workflow.py sort_workflow(workflow)
nodes_sort_workflow(workflow) ==
    IF ~IsDict(workflow) THEN Ok(workflow)
    ELSE LET stripped == nodes_strip_metadata(workflow)
         IN  IF ~stripped.ok THEN stripped
             ELSE LET canonical_nodes == [i \in 1..Len(stripped.val.v) |->
                            KV(stripped.val.v[i].k, canonicalize_json(stripped.val.v[i].v))]
                  IN  Ok(JDict(SortedBy(canonical_nodes,
                            [i \in 1..Len(canonical_nodes) |->
                                stringify(canonical_nodes[i].v)])))

\* workflow1 == workflow2 for two values of which one is not a dict.  The
\* values of the model hold no two equal numbers of different type.
PyEqual(a, b) == a.t = b.t /\ a.v = b.v

\* A variant that compares the nodes without remapping them.
nodes_are_sorted_workflows_equal_by_id(workflow1, workflow2) ==
    IF ~IsDict(workflow1) \/ ~IsDict(workflow2) THEN Ok(PyEqual(workflow1, workflow2))
    ELSE Ok(compare_json(JList([i \in 1..Len(workflow1.v) |-> workflow1.v[i].v]),
                         JList([i \in 1..Len(workflow2.v) |-> workflow2.v[i].v])) = 0)

\* nodes/workflow.py are_sorted_workflows_equal(workflow1, workflow2)
nodes_are_sorted_workflows_equal(workflow1, workflow2) ==
    IF ~IsDict(workflow1) \/ ~IsDict(workflow2) THEN Ok(PyEqual(workflow1, workflow2))
    ELSE LET remapped1 == nodes_remap_node_ids(workflow1)
             remapped2 == nodes_remap_node_ids(workflow2)
         IN  IF ~remapped1.ok THEN remapped1
             ELSE IF ~remapped2.ok THEN remapped2
             ELSE Ok(compare_json(JList(remapped1.val), JList(remapped2.val)) = 0)

(***************************************************************************)
(* json.loads: the parser that reads back what stringify / json.dump wrote *)
(***************************************************************************)

RECURSIVE DigitsValue(_)
\* The number a string of decimal digits spells.
DigitsValue(ds) ==
    IF ds = <<>> THEN 0
    ELSE 10 * DigitsValue(SubSeq(ds, 1, Len(ds) - 1)) + (ds[Len(ds)] - 48)

\* The first position >= from where text holds the character c, 0 if none.
IndexOf(text, c, from) ==
    LET hits == {i \in from..Len(text) : text[i] = c}
    IN  IF hits = {} THEN 0 ELSE CHOOSE i \in hits : \A k \in hits : i <= k

\* The characters of a JSON number: - + . e and the digits.
NumberChars == {43, 45, 46, 101} \cup 48..57

\* The last position of the number that starts at position p.
NumberEnd(text, p) ==
    LET stops == {i \in p..Len(text) : text[i] \notin NumberChars}
    IN  IF stops = {} THEN Len(text)
        ELSE (CHOOSE i \in stops : \A k \in stops : i <= k) - 1

\* A number without fraction and exponent is an int, any other one a float:
\* [-]I.F has hi = I * 10 + F[1] and lo = the next nine decimals;
\* [-]I[.F]e-XX (written for 0 < |x| < 1e-4 only) lies in lo.
ParseNumber(num) ==
    LET neg == num[1] = 45
        body == IF neg THEN Tail(num) ELSE num
        dot == IndexOf(body, 46, 1)
        e == IndexOf(body, 101, 1)
    IN  IF dot = 0 /\ e = 0
        THEN JInt(IF neg THEN -DigitsValue(body) ELSE DigitsValue(body))
        ELSE LET mant == IF e = 0 THEN body ELSE SubSeq(body, 1, e - 1)
                 ip == IF dot = 0 THEN mant ELSE SubSeq(mant, 1, dot - 1)
                 fp == IF dot = 0 THEN <<>> ELSE SubSeq(mant, dot + 1, Len(mant))
             IN  IF e = 0
                 THEN LET pad == fp \o [i \in 1..(10 - Len(fp)) |-> 48]
                      IN  JFloat(neg, 10 * DigitsValue(ip) + (pad[1] - 48),
                                 DigitsValue(SubSeq(pad, 2, 10)))
                 ELSE LET ex == DigitsValue(SubSeq(body, e + 2, Len(body)))
                      IN  JFloat(neg, 0, DigitsValue(ip \o fp) * Pow10(10 - ex - Len(fp)))

RECURSIVE ParseValue(_, _)
RECURSIVE ParseElements(_, _, _)
RECURSIVE ParseMembers(_, _, _)

\* A str token from the quote at position p to the closing quote at q.  The
\* modelled strings need no escapes.
StringToken(text, p, q) ==
    [val |-> JStr(Unchars(SubSeq(text, p + 1, q - 1))), next |-> q + 1]

\* A number token from position p to position q.
NumberToken(text, p, q) ==
    [val |-> ParseNumber(SubSeq(text, p, q)), next |-> q + 1]

\* The JSON value that starts at position p of text, and the position after
\* it.
ParseValue(text, p) ==
    CASE text[p] = 123 ->
            IF text[p + 1] = 125 THEN [val |-> JDict(<<>>), next |-> p + 2]
            ELSE ParseMembers(text, p + 1, <<>>)
      [] text[p] = 91 ->
            IF text[p + 1] = 93 THEN [val |-> JList(<<>>), next |-> p + 2]
            ELSE ParseElements(text, p + 1, <<>>)
      [] text[p] = 34 -> StringToken(text, p, IndexOf(text, 34, p + 1))
      [] text[p] = 116 -> [val |-> JBool(TRUE), next |-> p + 4]
      [] text[p] = 102 -> [val |-> JBool(FALSE), next |-> p + 5]
      [] text[p] = 110 -> [val |-> JNull, next |-> p + 4]
      [] OTHER -> NumberToken(text, p, NumberEnd(text, p))

\* The array after its element item has been read: on to the next element
\* after a comma, or done.
ElementsAfter(text, item, acc) ==
    IF text[item.next] = 44 THEN ParseElements(text, item.next + 1, Append(acc, item.val))
    ELSE [val |-> JList(Append(acc, item.val)), next |-> item.next + 1]

\* The elements of an array from position p on, after the elements acc.
ParseElements(text, p, acc) == ElementsAfter(text, ParseValue(text, p), acc)

\* The object after its member key: item has been read.  A key that occurs
\* again replaces the value and keeps its first position.
MembersAfter(text, key, item, acc) ==
    IF text[item.next] = 44
    THEN ParseMembers(text, item.next + 1, SetKey(JDict(acc), key.val.v, item.val).v)
    ELSE [val |-> SetKey(JDict(acc), key.val.v, item.val), next |-> item.next + 1]

\* The member whose key token has been read: its value follows the colon.
MemberOf(text, key, acc) == MembersAfter(text, key, ParseValue(text, key.next + 1), acc)

\* The members of an object from position p on, after the members acc.
ParseMembers(text, p, acc) ==
    MemberOf(text, StringToken(text, p, IndexOf(text, 34, p + 1)), acc)

\* json.loads(text) / json.load(file) of a text that json.dump wrote.
loads(text) == ParseValue(text, 1).val

(***************************************************************************)
(* The workflows the engine is run on                                      *)
(***************************************************************************)

\* Largest number of nodes of a generated workflow.
MaxNodes == 2

\* Node ids, in the order in which a generated workflow declares them; the
\* one after MaxNodes is a fresh id a renaming may use.
IdName == <<"1", "2", "3", "4", "5">>
NodeIds == {IdName[i] : i \in 1..MaxNodes}

\* A Reference [node id, output index].
Ref(id, slot) == JList(<<JStr(id), JInt(slot)>>)

\* 0.7 and 0.7000000001: the second canonicalizes to the first.
Float07 == JFloat(FALSE, 7, 0)
Float07Noise == JFloat(FALSE, 7, 1)

\* Values of an input parameter: scalars, a literal two-element array that
\* is not a Reference, and a Reference to each node id.
ScalarValues == {JInt(1), JInt(2), Float07Noise}
LiteralPair == JList(<<JInt(0), JInt(1)>>)
RefValues == {Ref(IdName[i], i % 2) : i \in 1..MaxNodes}
DanglingRef == Ref("9", 0)
InputValues == ScalarValues \cup {LiteralPair} \cup RefValues
\* Values an input is changed to.
ChangedValues == ScalarValues \cup {Float07}

NodeWith(inputs) == JDict(<<KV("inputs", inputs)>>)

\* Nodes: one input x; the same with metadata or with the UI text input;
\* a node with a Reference to an id no workflow declares; a node whose
\* inputs is not a dict; a node without inputs; a non-dict node.
GoodNodes ==
    {NodeWith(JDict(<<KV("x", v)>>)) : v \in InputValues}
    \cup {JDict(<<KV("_meta", JDict(<<KV("title", JStr("a"))>>)),
                  KV("inputs", JDict(<<KV("x", JInt(1))>>))>>),
          NodeWith(JDict(<<KV("x", JInt(1)), KV("_displayed_text", JStr("a"))>>))}
BadNodes ==
    {NodeWith(JDict(<<KV("x", DanglingRef)>>)),
     NodeWith(JInt(1)), JDict(<<KV("class_type", JStr("A"))>>), JInt(1)}
NodePool == GoodNodes \cup BadNodes

\* The workflows with n nodes from a pool, declared under the ids 1..n.
GraphsOf(pool, n) ==
    {JDict([i \in 1..n |-> KV(IdName[i], ns[i])]) : ns \in [1..n -> pool]}

\* Workflows whose nodes are Objects with an Object inputs (a Reference may
\* still dangle), and workflows of any nodes.
Graphs == UNION {GraphsOf(GoodNodes, n) : n \in 0..MaxNodes}
AnyGraphs == UNION {GraphsOf(NodePool, n) : n \in 0..MaxNodes}

\* JSON values that are not an Object.
NonDicts == {JInt(1), JStr("a"), JNull, JList(<<>>), JList(<<Float07Noise>>)}

\* A node with every field strip_metadata looks at, between fields it leaves
\* alone.
RichNode ==
    JDict(<<KV("is_changed", JBool(TRUE)),
            KV("class_type", JStr("A")),
            KV("inputs", JDict(<<KV("_displayed_text", JStr("a")),
                                 KV("x", Ref("1", 0)),
                                 KV("y", LiteralPair)>>)),
            KV("_meta", JDict(<<KV("title", JStr("a"))>>))>>)

\* Workflows of one more node, over two nodes: some nodes have the same
\* content.
TieGraphs ==
    GraphsOf({NodeWith(JDict(<<KV("x", JInt(1))>>)), NodeWith(JDict(<<KV("x", JInt(2))>>))},
             MaxNodes + 1)

Workflows ==
    AnyGraphs \cup NonDicts \cup TieGraphs
    \cup UNION {GraphsOf({RichNode, JInt(1)}, n) : n \in 1..MaxNodes}

\* Every node is an Object whose inputs is an Object, and every Reference
\* points to a node of the workflow.
WellFormed(w) ==
    /\ IsDict(w)
    /\ \A i \in 1..Len(w.v) :
        LET node == w.v[i].v
        IN  /\ IsDict(node)
            /\ HasKey(node, INPUTS_KEY)
            /\ IsDict(Get(node, INPUTS_KEY))
            /\ \A n \in 1..Len(Get(node, INPUTS_KEY).v) :
                LET v == Get(node, INPUTS_KEY).v[n].v
                IN  IsReference(v) => v.v[1].v \in KeySet(w)

\* Some Object node has a Reference to an id the workflow does not declare.
HasDanglingReference(w) ==
    /\ IsDict(w)
    /\ \E i \in 1..Len(w.v) :
        LET node == w.v[i].v
        IN  /\ IsDict(node)
            /\ HasKey(node, INPUTS_KEY)
            /\ IsDict(Get(node, INPUTS_KEY))
            /\ \E n \in 1..Len(Get(node, INPUTS_KEY).v) :
                LET v == Get(node, INPUTS_KEY).v[n].v
                IN  IsReference(v) /\ v.v[1].v \notin KeySet(w)

\* Some Object node carries an inputs field that is not an Object.
HasNonDictInputs(w) ==
    /\ IsDict(w)
    /\ \E i \in 1..Len(w.v) :
        LET node == w.v[i].v
        IN  IsDict(node) /\ HasKey(node, INPUTS_KEY) /\ ~IsDict(Get(node, INPUTS_KEY))

\* The workflow with every node id renamed through m, References included.
RenameIds(w, m) ==
    LET renameValue(v) ==
            IF IsReference(v) /\ v.v[1].v \in DOMAIN m
            THEN JList(<<JStr(m[v.v[1].v]), v.v[2]>>) ELSE v
        renameNode(node) ==
            IF IsDict(node) /\ HasKey(node, INPUTS_KEY) /\ IsDict(Get(node, INPUTS_KEY))
            THEN SetKey(node, INPUTS_KEY,
                    JDict([n \in 1..Len(Get(node, INPUTS_KEY).v) |->
                        KV(Get(node, INPUTS_KEY).v[n].k,
                           renameValue(Get(node, INPUTS_KEY).v[n].v))]))
            ELSE node
    IN  JDict([i \in 1..Len(w.v) |-> KV(m[w.v[i].k], renameNode(w.v[i].v))])

Injections(S, T) == {m \in [S -> T] : \A a, b \in S : m[a] = m[b] => a = b}
Perms(n) == Injections(1..n, 1..n)

\* Renamings of the ids of w: every permutation of them, and the shift of
\* each id to the next one, which brings in an id w does not declare.
Renamings(w) ==
    Injections(KeySet(w), KeySet(w))
    \cup {[k \in KeySet(w) |-> IdName[(CHOOSE i \in 1..Len(IdName) : IdName[i] = k) + 1]]}

\* The workflow with input k of node i (by position) set to v.
SetInput(w, i, k, v) ==
    JDict([j \in 1..Len(w.v) |->
        IF j = i
        THEN KV(w.v[j].k, SetKey(w.v[j].v, INPUTS_KEY,
                                 SetKey(Get(w.v[j].v, INPUTS_KEY), k, v)))
        ELSE w.v[j]])

\* Ignore lists over the ids of w: no id or one id.
IgnoreLists(w) == {<<>>} \cup {<<w.v[i].k>> : i \in 1..Len(w.v)}

NoOutcome == Raise("none")
NoRel == [kind |-> "none", node |-> "", key |-> ""]
NoFiles == <<>>

(***************************************************************************)
(* Scenarios of the engine: a workflow G is drawn, a second workflow G' is *)
(* derived from it, both are sorted and the sorted workflows compared; or  *)
(* one function is called on G directly.                                   *)
(***************************************************************************)

Start(pool) ==
    /\ pc = "start"
    /\ wf \in pool
    /\ other = JNull
    /\ rel = NoRel
    /\ ignored = <<>>
    /\ sorted1 = NoOutcome
    /\ sorted2 = NoOutcome
    /\ result = NoOutcome
    /\ files = NoFiles
    /\ last = NoOutcome

Init == Start(Graphs)

Derive(g, r, ign) ==
    /\ other' = g
    /\ rel' = r
    /\ ignored' = ign
    /\ pc' = "derived"
    /\ UNCHANGED <<wf, sorted1, sorted2, result, files, last>>

\* G' is G with every node id renamed through a bijection.
Rename ==
    /\ pc = "start"
    /\ IsDict(wf)
    /\ \E m \in Renamings(wf) :
        Derive(RenameIds(wf, m), [kind |-> "rename", node |-> "", key |-> ""], <<>>)

\* G' holds the nodes of G in another insertion order.
Reorder ==
    /\ pc = "start"
    /\ IsDict(wf)
    /\ \E p \in Perms(Len(wf.v)) :
        Derive(JDict([i \in 1..Len(wf.v) |-> wf.v[p[i]]]),
               [kind |-> "reorder", node |-> "", key |-> ""], <<>>)

\* G' is G with one input value of one node changed; some nodes are ignored.
ChangeInput ==
    /\ pc = "start"
    /\ IsDict(wf)
    /\ \E i \in 1..Len(wf.v) :
        /\ IsDict(wf.v[i].v)
        /\ HasKey(wf.v[i].v, INPUTS_KEY)
        /\ IsDict(Get(wf.v[i].v, INPUTS_KEY))
        /\ \E n \in 1..Len(Get(wf.v[i].v, INPUTS_KEY).v) :
            LET k == Get(wf.v[i].v, INPUTS_KEY).v[n].k
                old == Get(wf.v[i].v, INPUTS_KEY).v[n].v
            IN  \E v \in (IF k = "x" THEN ChangedValues ELSE {JStr("a"), JStr("b")}) :
                    /\ v # old
                    /\ \E ign \in IgnoreLists(wf) :
                        Derive(SetInput(wf, i, k, v),
                               [kind |-> "change", node |-> wf.v[i].k, key |-> k], ign)

\* G' is G.
Same ==
    /\ pc = "start"
    /\ IsDict(wf)
    /\ Derive(wf, [kind |-> "same", node |-> "", key |-> ""], <<>>)

\* sort_workflow(G) and sort_workflow(G').
SortBoth ==
    /\ pc = "derived"
    /\ sorted1' = sort_workflow(wf)
    /\ sorted2' = sort_workflow(other)
    /\ pc' = "sorted"
    /\ UNCHANGED <<wf, other, rel, ignored, result, files, last>>

\* are_sorted_workflows_equal(sort_workflow(G), sort_workflow(G'), ignored):
\* an exception raised by either sort_workflow ends the evaluation.
Compare ==
    /\ pc = "sorted"
    /\ result' = IF ~sorted1.ok THEN sorted1
                 ELSE IF ~sorted2.ok THEN sorted2
                 ELSE are_sorted_workflows_equal(sorted1.val, sorted2.val, ignored)
    /\ pc' = "done"
    /\ UNCHANGED <<wf, other, rel, ignored, sorted1, sorted2, files, last>>

Call(out, at) ==
    /\ result' = out
    /\ pc' = at
    /\ UNCHANGED <<wf, other, rel, ignored, sorted1, sorted2, files, last>>

\* strip_metadata(G)
CallStrip == pc = "start" /\ IsDict(wf) /\ Call(strip_metadata(wf), "stripped")

\* remap_node_ids(G)
CallRemap == pc = "start" /\ IsDict(wf) /\ Call(remap_node_ids(wf), "remapped")

\* sort_workflow(G)
CallSort == pc = "start" /\ Call(sort_workflow(wf), "sorted_one")

\* are_sorted_workflows_equal(G, o, []) and are_sorted_workflows_equal(o, G, [])
\* on unsorted arguments, o any JSON value.
CallEqual ==
    /\ pc = "start"
    /\ \E o \in NonDicts \cup {JDict(<<>>), wf} :
        \E first \in BOOLEAN :
            /\ other' = o
            /\ rel' = [kind |-> IF first THEN "first" ELSE "second", node |-> "", key |-> ""]
            /\ result' = IF first THEN are_sorted_workflows_equal(wf, o, <<>>)
                         ELSE are_sorted_workflows_equal(o, wf, <<>>)
            /\ pc' = "compared"
            /\ UNCHANGED <<wf, ignored, sorted1, sorted2, files, last>>

Next ==
    \/ Rename
    \/ Reorder
    \/ ChangeInput
    \/ Same
    \/ SortBoth
    \/ Compare

Spec == Init /\ [][Next]_vars

\* Direct calls on any JSON value, malformed workflows included.
InitCalls == Start(Workflows)

\* are_sorted_workflows_equal(G, o, ignored_nodes), the ignore list over the
\* ids "1", "2" and an id no workflow declares.
CallEqualIgnoring ==
    /\ pc = "start"
    /\ \E o \in {JDict(<<>>), wf} :
        \E ign \in {<<"1">>, <<"2">>, <<"9">>, <<"1", "9">>} :
            /\ other' = o
            /\ ignored' = ign
            /\ result' = are_sorted_workflows_equal(wf, o, ign)
            /\ pc' = "compared_ignoring"
            /\ UNCHANGED <<wf, rel, sorted1, sorted2, files, last>>

NextCalls ==
    \/ CallStrip
    \/ CallRemap
    \/ CallSort
    \/ CallEqual
    \/ CallEqualIgnoring

SpecCalls == InitCalls /\ [][NextCalls]_vars

(***************************************************************************)
(* The save node (custom_nodes/save_workflow.py).  The output directory is *)
(* the function files: name of a file -> its text.  Names and texts are    *)
(* sequences of character codes.                                           *)
(***************************************************************************)

SAVE_EXT == ".json"
WORKFLOW_EXTS == {".json"}
TRUE_VALUE == "true"
FALSE_VALUE == "false"

\* What a call returns: the message shown, the path it names and the
\* workflow_id of the result tuple.
Returned(msg, path, workflow_id) ==
    Ok([msg |-> msg, path |-> path, workflow_id |-> workflow_id])

parse_bool_str(string) ==
    IF string = TRUE_VALUE THEN Ok(TRUE)
    ELSE IF string = FALSE_VALUE THEN Ok(FALSE)
    ELSE Raise("ValueError")

\* validate_link(raw_link), raw_link a sequence of JSON values.
validate_link(raw_link) ==
    IF Len(raw_link) # 2 THEN Raise("ValueError")
    ELSE IF raw_link[1].t # "str" \/ raw_link[2].t \notin {"int", "bool"}
    THEN Raise("ValueError")
    ELSE Ok(<<raw_link[1].v, raw_link[2].v>>)

\* Python's truth value of a prompt; a prompt of type "text" is a str given
\* by its characters.
Truthy(j) ==
    CASE j.t = "null" -> FALSE
      [] j.t = "bool" -> j.v
      [] j.t = "int" -> j.v # 0
      [] j.t = "float" -> j.v.hi # 0 \/ j.v.lo # 0
      [] j.t = "str" -> j.v # ""
      [] OTHER -> j.v # <<>>

\* os.path.splitext(name) for a name without directory: the extension
\* starts at the last dot, and the dots a name begins with start none.
splitext(name) ==
    LET dots == {i \in 1..Len(name) : name[i] = 46}
        dot == IF dots = {} THEN 0 ELSE CHOOSE i \in dots : \A k \in dots : k <= i
    IN  IF dot > 0 /\ \E k \in 1..(dot - 1) : name[k] # 46
        THEN [root |-> SubSeq(name, 1, dot - 1), ext |-> SubSeq(name, dot, Len(name))]
        ELSE [root |-> name, ext |-> <<>>]

\* The files find_files_with_ext_in_dir lists.
MatchedFiles(dir, exts) ==
    {name \in DOMAIN dir : splitext(name).ext \in {Chars(e) : e \in exts}}

\* find_files_with_ext_in_dir(dir_path, exts): the matched files in any of
\* the orders os.listdir may return them.
find_files_with_ext_in_dir(dir, exts) ==
    LET matched == MatchedFiles(dir, exts)
    IN  {q \in [1..Cardinality(matched) -> matched] :
            \A i, j \in 1..Cardinality(matched) : q[i] = q[j] => i = j}

form_full_path(file_name, file_ext) == file_name \o Chars(file_ext)

RECURSIVE UnusedFrom(_, _, _, _)
\* The loop of find_unused_file_name from save_attempts on.
UnusedFrom(dir, orig_file_name, file_ext, save_attempts) ==
    LET file_name == IF save_attempts = 0 THEN orig_file_name
                     ELSE orig_file_name \o <<95>> \o IntStr(save_attempts)
        file_path == form_full_path(file_name, file_ext)
    IN  IF file_path \in DOMAIN dir
        THEN UnusedFrom(dir, orig_file_name, file_ext, save_attempts + 1)
        ELSE file_path

\* A variant that takes the first name whether a file has it or not.
find_unused_file_name_first(dir, orig_file_name, file_ext) ==
    form_full_path(orig_file_name, file_ext)

find_unused_file_name(dir, orig_file_name, file_ext) ==
    UnusedFrom(dir, orig_file_name, file_ext, 0)

IsDigit(c) == c \in 48..57

\* int(s): an optional sign, then digits with single underscores between
\* them; ValueError for any other text.
ParseInt(s) ==
    LET signed == s # <<>> /\ s[1] \in {43, 45}
        body == IF signed THEN Tail(s) ELSE s
        n == Len(body)
    IN  IF /\ n > 0
           /\ \A i \in 1..n : IsDigit(body[i]) \/ body[i] = 95
           /\ body[1] # 95 /\ body[n] # 95
           /\ \A i \in 1..(n - 1) : ~(body[i] = 95 /\ body[i + 1] = 95)
        THEN LET value == DigitsValue(SelectSeq(body, IsDigit))
             IN  Ok(IF signed /\ s[1] = 45 THEN -value ELSE value)
        ELSE Raise("ValueError")

\* The workflow_id read from the name of an existing file.
IdFromName(workflow_file_name, prefix_snr, suffix_snr) ==
    LET raw_name == splitext(workflow_file_name).root
        prefix_len == Len(prefix_snr)
        suffix_idx == Len(raw_name) - Len(suffix_snr)
        starts == prefix_len <= Len(raw_name)
                    /\ SubSeq(raw_name, 1, prefix_len) = prefix_snr
        ends == suffix_idx >= 0
                    /\ SubSeq(raw_name, suffix_idx + 1, Len(raw_name)) = suffix_snr
        workflow_id_str == IF starts /\ ends
                           THEN SubSeq(raw_name, prefix_len + 1, suffix_idx) ELSE <<>>
        parsed == ParseInt(workflow_id_str)
    IN  IF parsed.ok THEN parsed.val ELSE -1

RECURSIVE FirstEqual(_, _, _, _)

\* A variant of the iteration that takes a comparison that raised for "not
\* equal" and goes on with the next file.
EqualOrNextMasked(dir, existing_workflows, current_workflow, ignored_nodes, eq) ==
    IF eq.ok /\ eq.val THEN Ok(existing_workflows[1])
    ELSE FirstEqual(dir, Tail(existing_workflows), current_workflow, ignored_nodes)

\* One iteration of the loop over existing_workflows, eq the outcome of
\* are_sorted_workflows_equal for the first file.
EqualOrNext(dir, existing_workflows, current_workflow, ignored_nodes, eq) ==
    IF ~eq.ok THEN eq
    ELSE IF eq.val THEN Ok(existing_workflows[1])
    ELSE FirstEqual(dir, Tail(existing_workflows), current_workflow, ignored_nodes)

\* The loop over existing_workflows: the name of the first file that
\* are_sorted_workflows_equal judges equal to current_workflow, <<>> if there
\* is none, or the error the comparison raises before.
FirstEqual(dir, existing_workflows, current_workflow, ignored_nodes) ==
    IF existing_workflows = <<>> THEN Ok(<<>>)
    ELSE EqualOrNext(dir, existing_workflows, current_workflow, ignored_nodes,
            are_sorted_workflows_equal(current_workflow, loads(dir[existing_workflows[1]]),
                                       ignored_nodes))

\* The directory after file_path has been opened for writing and text dumped.
Written(dir, file_path, text) ==
    [name \in DOMAIN dir \cup {file_path} |-> IF name = file_path THEN text ELSE dir[name]]

\* What a call yields: what it returns or raises, and the directory it leaves.
Outcome(ret, dir) == [ret |-> ret, dir |-> dir]

(***************************************************************************)
(* search_and_replace (custom_nodes/utils.py).  Texts, node keys and names *)
(* are sequences of character codes.                                       *)
(***************************************************************************)

\* An Optional[str].
None == [some |-> FALSE, str |-> <<>>]
Some(codes) == [some |-> TRUE, str |-> codes]

RECURSIVE JoinWith(_, _)
\* sep.join(parts)
JoinWith(parts, sep) ==
    IF parts = <<>> THEN <<>>
    ELSE IF Len(parts) = 1 THEN parts[1]
    ELSE parts[1] \o sep \o JoinWith(Tail(parts), sep)

RECURSIVE PyRepr(_)
\* repr(json) of a Python value.
PyRepr(j) ==
    CASE j.t = "str" -> <<39>> \o Chars(j.v) \o <<39>>
      [] j.t = "int" -> IntStr(j.v)
      [] j.t = "float" -> FloatStr(j.v)
      [] j.t = "bool" -> IF j.v THEN <<84, 114, 117, 101>> ELSE <<70, 97, 108, 115, 101>>
      [] j.t = "null" -> <<78, 111, 110, 101>>
      [] j.t = "list" ->
            <<91>> \o JoinWith([i \in 1..Len(j.v) |-> PyRepr(j.v[i])], <<44, 32>>) \o <<93>>
      [] j.t = "dict" ->
            <<123>> \o JoinWith([i \in 1..Len(j.v) |->
                            <<39>> \o Chars(j.v[i].k) \o <<39, 58, 32>> \o PyRepr(j.v[i].v)],
                        <<44, 32>>) \o <<125>>

\* JsonOpt.get(key)
JsonOptGet(json, key) ==
    IF IsDict(json) /\ HasKey(json, key) THEN Get(json, key) ELSE JNull

\* JsonOpt.to_list()
to_list(json) ==
    IF IsDict(json) THEN [i \in 1..Len(json.v) |-> JStr(json.v[i].k)]
    ELSE IF IsList(json) THEN json.v
    ELSE <<>>

\* JsonOpt.to_str()
to_str(json) ==
    IF json.t = "str" THEN Some(Chars(json.v))
    ELSE IF Truthy(json) THEN Some(PyRepr(json))
    ELSE None

\* JsonOpt.is_none()
is_none(json) == json.t = "null"

\* Python's "not value" of an Optional[str].
IsFalsy(value) == ~value.some \/ value.str = <<>>

\* nodes.NODE_DISPLAY_NAME_MAPPINGS, the display names ComfyUI registers:
\* here the one of type "B".
NODE_DISPLAY_NAME_MAPPINGS == [type \in {Chars("B")} |-> Chars("b")]

\* find_node_id(node)
find_node_id(node) ==
    IF IsFalsy(to_str(JsonOptGet(node, "id"))) THEN Raise("ValueError")
    ELSE Ok(to_str(JsonOptGet(node, "id")).str)

\* find_node_display_name(node)
find_node_display_name(node) ==
    IF ~IsFalsy(to_str(JsonOptGet(node, "title")))
    THEN Ok(to_str(JsonOptGet(node, "title")))
    ELSE IF IsFalsy(to_str(JsonOptGet(node, "type"))) THEN Raise("ValueError")
    ELSE IF to_str(JsonOptGet(node, "type")).str \in DOMAIN NODE_DISPLAY_NAME_MAPPINGS
    THEN Ok(Some(NODE_DISPLAY_NAME_MAPPINGS[to_str(JsonOptGet(node, "type")).str]))
    ELSE Ok(to_str(JsonOptGet(node, "type")))

\* find_node_snr(node)
find_node_snr(node) ==
    Ok(to_str(JsonOptGet(JsonOptGet(node, "properties"), "Node name for S&R")))

\* lambda n: n.get('type').to_str()
find_node_type(node) == Ok(to_str(JsonOptGet(node, "type")))

\* A value_to_id_map with its duplicates_set.
UniqueMap(map, dups) == [map |-> map, dups |-> dups]
EmptyMap == UniqueMap(<<>>, {})

\* A variant that adds a value seen again to duplicates_set and leaves it in
\* value_to_id_map.
map_unique_value_keep_first(value, node_id, m, is_fail_on_missing) ==
    IF ~value.ok THEN value
    ELSE IF IsFalsy(value.val)
    THEN IF is_fail_on_missing THEN Raise("ValueError") ELSE Ok(m)
    ELSE IF value.val.str \notin DOMAIN m.map /\ value.val.str \notin m.dups
    THEN Ok(UniqueMap([k \in DOMAIN m.map \cup {value.val.str} |->
                          IF k = value.val.str THEN node_id ELSE m.map[k]], m.dups))
    ELSE Ok(UniqueMap(m.map, m.dups \cup {value.val.str}))

\* map_unique_value_from_node(node, retrieve_fn, value_to_id_map,
\* duplicates_set, is_fail_on_missing), value what retrieve_fn(node) yields.
map_unique_value_from_node(value, node_id, m, is_fail_on_missing) ==
    IF ~value.ok THEN value
    ELSE IF IsFalsy(value.val)
    THEN IF is_fail_on_missing THEN Raise("ValueError") ELSE Ok(m)
    ELSE IF value.val.str \notin DOMAIN m.map /\ value.val.str \notin m.dups
    THEN Ok(UniqueMap([k \in DOMAIN m.map \cup {value.val.str} |->
                          IF k = value.val.str THEN node_id ELSE m.map[k]], m.dups))
    ELSE IF value.val.str \in DOMAIN m.map
    THEN Ok(UniqueMap([k \in DOMAIN m.map \ {value.val.str} |-> m.map[k]],
                      m.dups \cup {value.val.str}))
    ELSE Ok(m)

\* What the scan of the nodes has collected.
Scanned(node_ids, names, snrs, types) ==
    [node_ids |-> node_ids, names |-> names, snrs |-> snrs, types |-> types]

\* The three map_unique_value_from_node calls for one node.
ScanMaps(node_ids, names, snrs, types) ==
    IF ~names.ok THEN names
    ELSE IF ~snrs.ok THEN snrs
    ELSE IF ~types.ok THEN types
    ELSE Ok(Scanned(node_ids, names.val, snrs.val, types.val))

\* A variant that does not look for the node id among the ids seen before.
ScanNodeUnchecked(node, node_id, s) ==
    IF ~node_id.ok THEN node_id
    ELSE ScanMaps(s.node_ids \cup {node_id.val},
                  map_unique_value_from_node(find_node_display_name(node), node_id.val,
                                             s.names, TRUE),
                  map_unique_value_from_node(find_node_snr(node), node_id.val,
                                             s.snrs, FALSE),
                  map_unique_value_from_node(find_node_type(node), node_id.val,
                                             s.types, TRUE))

\* One iteration of the loop over the nodes.
ScanNode(node, node_id, s) ==
    IF ~node_id.ok THEN node_id
    ELSE IF node_id.val \in s.node_ids THEN Raise("ValueError")
    ELSE ScanMaps(s.node_ids \cup {node_id.val},
                  map_unique_value_from_node(find_node_display_name(node), node_id.val,
                                             s.names, TRUE),
                  map_unique_value_from_node(find_node_snr(node), node_id.val,
                                             s.snrs, FALSE),
                  map_unique_value_from_node(find_node_type(node), node_id.val,
                                             s.types, TRUE))

RECURSIVE ScanNodes(_, _, _)
\* The loop over the nodes from the i-th on; s is the outcome so far.
ScanNodes(nodes, i, s) ==
    IF ~s.ok \/ i > Len(nodes) THEN s
    ELSE ScanNodes(nodes, i + 1, ScanNode(nodes[i], find_node_id(nodes[i]), s.val))

\* The index of the first code c in text at or after position p, 0 if none.
RECURSIVE Find(_, _, _)
Find(text, c, p) ==
    IF p > Len(text) THEN 0 ELSE IF text[p] = c THEN p ELSE Find(text, c, p + 1)

RECURSIVE FindAll(_, _)
\* findall(r'%([^%]+)%', text) from position p on.
FindAll(text, p) ==
    IF Find(text, 37, p) = 0 \/ Find(text, 37, Find(text, 37, p) + 1) = 0 THEN <<>>
    ELSE IF Find(text, 37, Find(text, 37, p) + 1) = Find(text, 37, p) + 1
    THEN FindAll(text, Find(text, 37, p) + 1)
    ELSE <<SubSeq(text, Find(text, 37, p) + 1, Find(text, 37, Find(text, 37, p) + 1) - 1)>>
         \o FindAll(text, Find(text, 37, Find(text, 37, p) + 1) + 1)

\* Whether old occurs in text at position p.
StartsAt(text, old, p) ==
    p + Len(old) - 1 <= Len(text) /\ SubSeq(text, p, p + Len(old) - 1) = old

RECURSIVE Replace(_, _, _, _)
\* text.replace(old, new) from position p on, old not empty.
Replace(text, old, new, p) ==
    IF p > Len(text) THEN <<>>
    ELSE IF StartsAt(text, old, p) THEN new \o Replace(text, old, new, p + Len(old))
    ELSE <<text[p]>> \o Replace(text, old, new, p + 1)

\* The value of the key of dict json that is spelled by codes, None if the
\* json is no dict or has no such key.
GetSpelled(json, codes) ==
    IF IsDict(json) /\ \E i \in 1..Len(json.v) : Chars(json.v[i].k) = codes
    THEN json.v[CHOOSE i \in 1..Len(json.v) : Chars(json.v[i].k) = codes].v
    ELSE JNull

\* The replacement of a pattern whose widget value was found.
ReplaceValue(text, pattern, widget_value) ==
    IF is_none(widget_value) THEN Raise("ValueError")
    ELSE Ok(Replace(text, <<37>> \o pattern \o <<37>>,
                    IF IsFalsy(to_str(widget_value)) THEN <<>> ELSE to_str(widget_value).str, 1))

\* The replacement of a pattern whose node key resolved to node_id_str.
ReplaceFrom(text, pattern, widget_name, node_from_id) ==
    IF is_none(node_from_id) THEN Raise("ValueError")
    ELSE ReplaceValue(text, pattern,
                      GetSpelled(JsonOptGet(node_from_id, "inputs"), widget_name))

\* One iteration of the loop over the patterns, the pattern split at its dot.
ReplacePattern(text, pattern, node_key, widget_name, s, prompt_json) ==
    IF node_key \in s.snrs.dups \/ node_key \in s.names.dups \/ node_key \in s.types.dups
    THEN Raise("ValueError")
    ELSE IF node_key \in s.node_ids
    THEN ReplaceFrom(text, pattern, widget_name, GetSpelled(prompt_json, node_key))
    ELSE IF node_key \in DOMAIN s.snrs.map
    THEN ReplaceFrom(text, pattern, widget_name, GetSpelled(prompt_json, s.snrs.map[node_key]))
    ELSE IF node_key \in DOMAIN s.names.map
    THEN ReplaceFrom(text, pattern, widget_name, GetSpelled(prompt_json, s.names.map[node_key]))
    ELSE IF node_key \in DOMAIN s.types.map
    THEN ReplaceFrom(text, pattern, widget_name, GetSpelled(prompt_json, s.types.map[node_key]))
    ELSE Ok(text)

\* node_key, widget_name = pattern.split('.')
SplitAtDot(pattern) ==
    IF Cardinality({i \in 1..Len(pattern) : pattern[i] = 46}) # 1 THEN Raise("ValueError")
    ELSE Ok(<<SubSeq(pattern, 1, Find(pattern, 46, 1) - 1),
              SubSeq(pattern, Find(pattern, 46, 1) + 1, Len(pattern))>>)

RECURSIVE ReplacePatterns(_, _, _, _, _)
\* The loop over the patterns from the n-th on; text is the outcome so far.
ReplacePatterns(text, patterns, n, s, prompt_json) ==
    IF ~text.ok \/ n > Len(patterns) THEN text
    ELSE IF ~SplitAtDot(patterns[n]).ok THEN SplitAtDot(patterns[n])
    ELSE ReplacePatterns(
            ReplacePattern(text.val, patterns[n], SplitAtDot(patterns[n]).val[1],
                           SplitAtDot(patterns[n]).val[2], s, prompt_json),
            patterns, n + 1, s, prompt_json)

\* search_and_replace once the nodes are scanned.
ReplaceScanned(text, s, prompt_json) ==
    IF ~s.ok THEN s
    ELSE ReplacePatterns(Ok(text), FindAll(text, 1), 1, s.val, prompt_json)

\* A str argument is parsed, another one is taken as it is.
ParsedJson(arg) == IF arg.t = "text" THEN loads(arg.v) ELSE arg

\* search_and_replace(text, prompt, extra_pnginfo) for a text without
\* '%date:' tag.
search_and_replace(text, prompt, extra_pnginfo) ==
    IF text = <<>> \/ ~Truthy(extra_pnginfo) \/ ~Truthy(prompt) THEN Ok(text)
    ELSE IF to_list(JsonOptGet(JsonOptGet(ParsedJson(extra_pnginfo), "workflow"), "nodes")) = <<>>
    THEN Ok(text)
    ELSE ReplaceScanned(text,
            ScanNodes(to_list(JsonOptGet(JsonOptGet(ParsedJson(extra_pnginfo), "workflow"),
                                         "nodes")),
                      1, Ok(Scanned({}, EmptyMap, EmptyMap, EmptyMap))),
            ParsedJson(prompt))

\* save_workflow when no existing file is equal: the workflow is written.
SaveNew(dir, current_workflow, counter, file_path) ==
    Outcome(Returned("saved", file_path, counter),
            Written(dir, file_path, stringify(current_workflow)))

\* save_workflow after the loop over the existing files (found).
SaveCompared(dir, counter, prefix_snr, suffix_snr, counter_str, current_workflow, found) ==
    IF ~found.ok THEN Outcome(found, dir)
    ELSE IF found.val # <<>>
    THEN Outcome(Returned("exists", found.val, IdFromName(found.val, prefix_snr, suffix_snr)),
                 dir)
    ELSE SaveNew(dir, current_workflow, counter,
                 find_unused_file_name(dir, prefix_snr \o counter_str \o suffix_snr, SAVE_EXT))

\* save_workflow once a truthy prompt has been sorted (current_workflow).
SaveSorted(dir, existing_workflows, prefix_snr, suffix_snr, counter_str, ignored_nodes, current_workflow) ==
    IF ~current_workflow.ok THEN Outcome(current_workflow, dir)
    ELSE IF ~IsDict(current_workflow.val) THEN Outcome(Returned("failed", <<>>, -1), dir)
    ELSE SaveCompared(dir, Len(existing_workflows), prefix_snr, suffix_snr, counter_str,
                      current_workflow.val,
                      FirstEqual(dir, existing_workflows, current_workflow.val, ignored_nodes))

\* A variant that takes only None and the empty str for an absent prompt.
SaveParsedUnchecked(dir, existing_workflows, file_name_prefix, is_counter_enabled_bool, file_name_suffix, link, prompt) ==
    IF ~is_counter_enabled_bool.ok THEN Outcome(is_counter_enabled_bool, dir)
    ELSE IF ~link.ok THEN Outcome(link, dir)
    ELSE IF prompt.t \in {"null", "text"} /\ ~Truthy(prompt)
    THEN Outcome(Returned("failed", <<>>, -1), dir)
    ELSE SaveSorted(dir, existing_workflows,
                    search_and_replace(Chars(file_name_prefix), prompt, JNull).val,
                    search_and_replace(Chars(file_name_suffix), prompt, JNull).val,
                    IF is_counter_enabled_bool.val THEN IntStr(Len(existing_workflows)) ELSE <<>>,
                    link.val,
                    sort_workflow(IF prompt.t = "text" THEN loads(prompt.v) ELSE prompt))

\* save_workflow once its flag and its rawLink have been read.
SaveParsed(dir, existing_workflows, file_name_prefix, is_counter_enabled_bool, file_name_suffix, link, prompt) ==
    IF ~is_counter_enabled_bool.ok THEN Outcome(is_counter_enabled_bool, dir)
    ELSE IF ~link.ok THEN Outcome(link, dir)
    ELSE IF ~Truthy(prompt) THEN Outcome(Returned("failed", <<>>, -1), dir)
    ELSE SaveSorted(dir, existing_workflows,
                    search_and_replace(Chars(file_name_prefix), prompt, JNull).val,
                    search_and_replace(Chars(file_name_suffix), prompt, JNull).val,
                    IF is_counter_enabled_bool.val THEN IntStr(Len(existing_workflows)) ELSE <<>>,
                    link.val,
                    sort_workflow(IF prompt.t = "text" THEN loads(prompt.v) ELSE prompt))

\* ignored_nodes: the node id of each rawLink that is connected.
IgnoredNodes(link) == IF ~link.ok THEN link ELSE Ok(<<link.val[1]>>)

\* SaveWorkflowNode.save_workflow with directory_name '', no extra_pnginfo
\* and ignored_inputs_1, ignored_inputs_2 left at [].  existing_workflows is
\* what find_files_with_ext_in_dir returned.  Yields what the call returns
\* or raises (ret) and the directory it leaves (dir).
save_workflow(dir, existing_workflows, file_name_prefix, is_counter_enabled, file_name_suffix, ignored_inputs_0, prompt) ==
    SaveParsed(dir, existing_workflows, file_name_prefix, parse_bool_str(is_counter_enabled),
               file_name_suffix,
               IF ignored_inputs_0 = <<>> THEN Ok(<<>>)
               ELSE IgnoredNodes(validate_link(ignored_inputs_0)),
               prompt)

\* The inputs of the calls.
MaxFiles == 3
\* file_name_prefix and file_name_suffix of a call
Affixes == {<<"", "">>, <<"a", "b">>}
\* ignored_inputs_0 of a call: not connected, or the rawLink of node "1"
NotConnected == <<>>
LinkToOne == <<JStr("1"), JInt(0)>>
JText(codes) == [t |-> "text", v |-> codes]

PromptOne == JDict(<<KV("1", NodeWith(JDict(<<KV("x", JInt(1))>>)))>>)
PromptOneMeta ==
    JDict(<<KV("2", JDict(<<KV("_meta", JDict(<<KV("title", JStr("A"))>>)),
                            KV("inputs", JDict(<<KV("x", JInt(1))>>))>>))>>)
PromptTwo == JDict(<<KV("1", NodeWith(JDict(<<KV("x", JInt(2))>>)))>>)
PromptLinked ==
    JDict(<<KV("1", NodeWith(JDict(<<KV("x", JInt(2))>>))),
            KV("2", NodeWith(JDict(<<KV("x", Ref("1", 0))>>)))>>)
PromptDangling == JDict(<<KV("1", NodeWith(JDict(<<KV("x", DanglingRef)>>)))>>)
PromptBadInputs == JDict(<<KV("1", NodeWith(JInt(1)))>>)

WellFormedPrompts ==
    {JDict(<<>>), PromptOne, PromptOneMeta, PromptTwo, PromptLinked}
SavePrompts ==
    WellFormedPrompts
    \cup {PromptDangling, PromptBadInputs, JInt(1), JText(stringify(PromptTwo))}

\* The pairs <<prompt, ignored_inputs_0>> of the calls.
WellFormedCalls == WellFormedPrompts \X {NotConnected}
AnyCalls == (SavePrompts \X {NotConnected}) \cup ({PromptTwo, PromptLinked} \X {LinkToOne})

InitSave ==
    /\ pc = "idle"
    /\ wf = JNull
    /\ other = JNull
    /\ rel = NoRel
    /\ ignored = <<>>
    /\ sorted1 = NoOutcome
    /\ sorted2 = NoOutcome
    /\ result = NoOutcome
    /\ files = NoFiles
    /\ last = NoOutcome

\* One call of save_workflow on the directory, while it holds fewer than
\* MaxFiles files.
SaveWorkflow(calls) ==
    /\ pc = "idle"
    /\ Cardinality(DOMAIN files) < MaxFiles
    /\ \E args \in calls, affixes \in Affixes, is_counter_enabled \in {TRUE_VALUE, FALSE_VALUE} :
        \E existing_workflows \in find_files_with_ext_in_dir(files, WORKFLOW_EXTS) :
            \E call \in {save_workflow(files, existing_workflows, affixes[1],
                                       is_counter_enabled, affixes[2], args[2], args[1])} :
                /\ files' = call.dir
                /\ last' = call.ret
    /\ UNCHANGED <<pc, wf, other, rel, ignored, sorted1, sorted2, result>>

\* Any call.
SaveAny == SaveWorkflow(AnyCalls)

NextSave == SaveAny

SpecSave == InitSave /\ [][NextSave]_vars

\* Calls with a well-formed prompt and no ignored inputs.
SaveWellFormed == SaveWorkflow(WellFormedCalls)

NextDedup == SaveWellFormed

SpecDedup == InitSave /\ [][NextDedup]_vars

(***************************************************************************)
(* Properties                                                              *)
(***************************************************************************)

\* The text a node is sorted by: stringify of the stripped, canonical node.
CanonicalContent(node) == stringify(canonicalize_json(StripNode(node).val))

\* No two nodes of a well-formed workflow have the same canonical content.
NoDuplicateContent(w) ==
    \A i, j \in 1..Len(w.v) :
        i # j => CanonicalContent(w.v[i].v) # CanonicalContent(w.v[j].v)

\* Input k of the node with the given id.
InputOf(w, id, k) == Get(Get(Get(w, id), INPUTS_KEY), k)

SeqSet(q) == {q[i] : i \in 1..Len(q)}

\* C1 (ID-independence): when G' is G with all node ids renamed through a
\* bijection, References included, comparing the two sorted workflows with
\* an empty ignore list returns true.
C1_IdIndependence ==
    (pc = "done" /\ rel.kind = "rename" /\ WellFormed(wf) /\ NoDuplicateContent(wf))
        => result = Ok(TRUE)

\* C2 (declaration-order independence): when no two nodes of G have the
\* same canonical content and G' holds the same id-node pairs in another
\* insertion order, both sorted workflows iterate their ids in the same
\* order and comparing them with an empty ignore list returns true.
C2_DeclarationOrderIndependence ==
    (pc = "done" /\ rel.kind = "reorder" /\ WellFormed(wf) /\ NoDuplicateContent(wf))
        => /\ sorted1.ok /\ sorted2.ok
           /\ Keys(sorted1.val) = Keys(sorted2.val)
           /\ result = Ok(TRUE)

C2_Witness ==
    /\ pc = "done" /\ rel.kind = "reorder"
    /\ WellFormed(wf) /\ NoDuplicateContent(wf)
    /\ Keys(other) # Keys(wf)
    /\ Keys(sorted1.val) # Keys(wf)
    /\ result = Ok(TRUE)

\* C3 (ignored node): when G' differs from G only in the value of an input
\* of node N, comparing the sorted workflows with the ignore list [N]
\* returns true.
C3_IgnoredNode ==
    (/\ pc = "done" /\ rel.kind = "change" /\ ignored = <<rel.node>>
     /\ WellFormed(wf) /\ WellFormed(other)
     /\ NoDuplicateContent(wf) /\ NoDuplicateContent(other))
        => result = Ok(TRUE)

\* C4 (a non-ignored difference is detected): when G' differs from G only
\* in one non-Reference input value of node N (a value that is still
\* different after canonicalization, under a key that is compared) and N is
\* not in the ignore list, comparing the sorted workflows returns false.
C4_NonIgnoredDifferenceDetected ==
    (/\ pc = "done" /\ rel.kind = "change" /\ rel.node \notin SeqSet(ignored)
     /\ WellFormed(wf) /\ WellFormed(other)
     /\ NoDuplicateContent(wf) /\ NoDuplicateContent(other)
     /\ rel.key \notin IGNORED_INPUTS_KEYS
     /\ ~IsReference(InputOf(wf, rel.node, rel.key))
     /\ ~IsReference(InputOf(other, rel.node, rel.key))
     /\ stringify(canonicalize_json(InputOf(wf, rel.node, rel.key)))
            # stringify(canonicalize_json(InputOf(other, rel.node, rel.key))))
        => result = Ok(FALSE)

\* C5 (round trip): for a well-formed G without duplicate node content,
\* comparing sort_workflow(G) with sort_workflow(G) and an empty ignore list
\* returns true.
C5_RoundTrip ==
    (pc = "done" /\ rel.kind = "same" /\ WellFormed(wf) /\ NoDuplicateContent(wf))
        => result = Ok(TRUE)

C5_Witness ==
    /\ pc = "done" /\ rel.kind = "same"
    /\ WellFormed(wf) /\ NoDuplicateContent(wf)
    /\ Len(wf.v) = MaxNodes
    /\ \E i \in 1..Len(wf.v) : IsReference(InputOf(wf, wf.v[i].k, "x"))
    /\ Keys(sorted1.val) # Keys(wf)
    /\ result = Ok(TRUE)

\* An Object node without an inputs field.
LacksInputs(node) == IsDict(node) /\ ~HasKey(node, INPUTS_KEY)

\* An Object node whose inputs field is present but not an Object.
NonDictInputs(node) ==
    IsDict(node) /\ HasKey(node, INPUTS_KEY) /\ ~IsDict(Get(node, INPUTS_KEY))

\* An Object node with a Reference to an id the workflow w does not declare.
Dangling(w, node) ==
    /\ IsDict(node) /\ HasKey(node, INPUTS_KEY) /\ IsDict(Get(node, INPUTS_KEY))
    /\ \E n \in 1..Len(Get(node, INPUTS_KEY).v) :
        LET v == Get(node, INPUTS_KEY).v[n].v
        IN  IsReference(v) /\ v.v[1].v \notin KeySet(w)

\* The position of the first node with inputs that are not an Object.
FirstNonDictInputs(w) ==
    CHOOSE i \in 1..Len(w.v) :
        /\ NonDictInputs(w.v[i].v)
        /\ \A j \in 1..(i - 1) : ~NonDictInputs(w.v[j].v)

\* C8 (dangling reference): when G has a Reference to an id that is not a
\* key of G, remap_node_ids(G) raises and returns nothing, and so does
\* are_sorted_workflows_equal with G as either argument (the other one a
\* dict); the error is the lookup failure (KeyError) unless a node with
\* inputs that are not an Object is reached first.
C8_DanglingReference ==
    /\ (pc = "remapped" /\ HasDanglingReference(wf))
        => /\ ~result.ok
           /\ ~HasNonDictInputs(wf) => result = Raise("KeyError")
    /\ (pc = "compared" /\ HasDanglingReference(wf) /\ IsDict(other))
        => /\ ~result.ok
           /\ ~HasNonDictInputs(wf) => result = Raise("KeyError")

C8_Witness ==
    /\ pc = "compared" /\ rel.kind = "second"
    /\ other = JDict(<<>>)
    /\ IsDict(wf) /\ Len(wf.v) = MaxNodes
    /\ ~Dangling(wf, wf.v[1].v) /\ Dangling(wf, wf.v[MaxNodes].v)
    /\ result = Raise("KeyError")

\* C9 (inputs must be an Object): when some Object node of G carries an
\* inputs field that is present but not an Object, strip_metadata(G),
\* sort_workflow(G) and remap_node_ids(G) raise and return no workflow; the
\* error is the validation error (ValueError) raised at the first such
\* node, unless an earlier node already failed a lookup (KeyError): a node
\* without inputs or, in remap_node_ids, a dangling Reference.
C9_InputsMustBeObject ==
    /\ (pc \in {"stripped", "sorted_one"} /\ HasNonDictInputs(wf))
        => result =
            IF \E j \in 1..(FirstNonDictInputs(wf) - 1) : LacksInputs(wf.v[j].v)
            THEN Raise("KeyError") ELSE Raise("ValueError")
    /\ (pc = "remapped" /\ HasNonDictInputs(wf))
        => result =
            IF \E j \in 1..(FirstNonDictInputs(wf) - 1) :
                    LacksInputs(wf.v[j].v) \/ Dangling(wf, wf.v[j].v)
            THEN Raise("KeyError") ELSE Raise("ValueError")

C9_Witness ==
    /\ pc = "sorted_one"
    /\ IsDict(wf) /\ Len(wf.v) = MaxNodes
    /\ WellFormed(JDict(<<wf.v[1]>>))
    /\ NonDictInputs(wf.v[MaxNodes].v)
    /\ result = Raise("ValueError")

\* C10 (only Objects are compared): when either argument of
\* are_sorted_workflows_equal is not an Object, it raises the validation
\* error (ValueError), whatever the other argument is.
C10_OnlyObjectsCompared ==
    (pc = "compared" /\ (~IsDict(wf) \/ ~IsDict(other)))
        => result = Raise("ValueError")

C10_Witness ==
    /\ pc = "compared" /\ rel.kind = "first"
    /\ WellFormed(wf) /\ Len(wf.v) = MaxNodes
    /\ other = JNull
    /\ result = Raise("ValueError")

\* are_sorted_workflows_equal, with no ignored nodes, judges the workflows
\* two texts hold equal.
JudgedEqual(text, other_text) ==
    are_sorted_workflows_equal(loads(text), loads(other_text), <<>>) = Ok(TRUE)

(***************************************************************************)
(* Calls of save_workflow on a directory that already holds files: files   *)
(* of other origin, or files left after others were deleted.               *)
(***************************************************************************)

\* A directory of one file.
OneFile(name, text) == [n \in {name} |-> text]

\* The directories at the start: empty; "1.json" alone, with a workflow;
\* "x.json" with a text that is not an Object; "x.json" with a workflow that
\* has a dangling Reference; "x.json" with a workflow and "y.json" with a
\* text that is not an Object.
ExistingDirs ==
    {NoFiles,
     OneFile(Chars("1") \o Chars(SAVE_EXT), stringify(PromptTwo)),
     OneFile(Chars("x") \o Chars(SAVE_EXT), stringify(JInt(1))),
     OneFile(Chars("x") \o Chars(SAVE_EXT), stringify(PromptDangling)),
     Written(OneFile(Chars("x") \o Chars(SAVE_EXT), stringify(PromptOne)),
             Chars("y") \o Chars(SAVE_EXT), stringify(JList(<<>>)))}

\* The prompts of the calls on these directories.
DirPrompts == {PromptOne, PromptTwo, JDict(<<>>), JInt(1)}

InitDir ==
    /\ pc = "idle"
    /\ wf = JNull
    /\ other = JNull
    /\ rel = NoRel
    /\ ignored = <<>>
    /\ sorted1 = NoOutcome
    /\ sorted2 = NoOutcome
    /\ result = NoOutcome
    /\ files \in ExistingDirs
    /\ last = NoOutcome

\* One call of save_workflow(.., prompt, ..) with the affixes and the flag
\* given: wf is its prompt, sorted1 the order in which the directory was
\* listed, sorted2 the directory before the call, last what it returned.
SaveCall(prompt, prefix, suffix, is_counter_enabled) ==
    /\ Cardinality(DOMAIN files) < MaxFiles
    /\ \E existing_workflows \in find_files_with_ext_in_dir(files, WORKFLOW_EXTS) :
        \E call \in {save_workflow(files, existing_workflows, prefix, is_counter_enabled,
                                   suffix, NotConnected, prompt)} :
            /\ files' = call.dir
            /\ last' = call.ret
            /\ sorted1' = Ok(existing_workflows)
            /\ sorted2' = Ok(files)
    /\ wf' = prompt
    /\ UNCHANGED ignored

\* The last call wrote its prompt to a new file.
Saved(ret) == ret.ok /\ ret.val.msg = "saved"

\* A call with the counter enabled: when it writes a new file, its prompt,
\* affixes and workflow_id are kept in other, rel and result.
SaveCounted ==
    /\ pc = "idle"
    /\ \E prompt \in DirPrompts, affixes \in Affixes :
        /\ SaveCall(prompt, affixes[1], affixes[2], TRUE_VALUE)
        /\ rel' = [kind |-> "counted", node |-> affixes[1], key |-> affixes[2]]
        /\ other' = IF Saved(last') THEN prompt ELSE other
    /\ pc' = IF Saved(last') THEN "saved" ELSE "idle"
    /\ result' = IF Saved(last') THEN Ok(last'.val.workflow_id) ELSE result

\* Another call in between, with any prompt, affixes and flag.
SaveOther ==
    /\ pc \in {"idle", "saved", "saved_again"}
    /\ \E prompt \in DirPrompts, affixes \in Affixes, flag \in {TRUE_VALUE, FALSE_VALUE} :
        SaveCall(prompt, affixes[1], affixes[2], flag)
    /\ pc' = IF pc = "saved_again" THEN "saved" ELSE pc
    /\ UNCHANGED <<rel, result, other>>

\* A later call with the prompt and the affixes of the call that was kept,
\* the counter enabled.
SaveAgain ==
    /\ pc \in {"saved", "saved_again"}
    /\ SaveCall(other, rel.node, rel.key, TRUE_VALUE)
    /\ pc' = "saved_again"
    /\ UNCHANGED <<rel, result, other>>

NextDir ==
    \/ SaveCounted
    \/ SaveOther
    \/ SaveAgain

SpecDir == InitDir /\ [][NextDir]_vars

\* C6 (deduplication invariant): after any sequence of save_workflow calls
\* with well-formed prompts and no ignored inputs into an initially empty
\* directory, no two files of the directory (save_workflow wrote them all,
\* each with the extension .json) hold workflows that
\* are_sorted_workflows_equal judges equal: a call whose prompt is
\* equivalent to a saved file has written no file.
C6_Deduplication ==
    \A name, other_name \in DOMAIN files :
        name # other_name => ~JudgedEqual(files[name], files[other_name])

\* C7 (saved files are never mutated): every save_workflow call leaves each
\* file of the directory in place with its text unchanged; a call that
\* reports a saved workflow has written exactly one file, at the path it
\* reports, which no file had before; any other call has written none.
C7_SavedFilesNeverMutated ==
    [][/\ \A name \in DOMAIN files : name \in DOMAIN files' /\ files'[name] = files[name]
       /\ (DOMAIN files') \ (DOMAIN files) =
            IF last'.ok /\ last'.val.msg = "saved" THEN {last'.val.path} ELSE {}]_vars

\* The last call found its first name taken and wrote to the name with _1.
C7_Witness ==
    /\ last.ok /\ last.val.msg = "saved"
    /\ last.val.path = Chars("a") \o Chars("b") \o <<95, 49>> \o Chars(SAVE_EXT)
    /\ (Chars("a") \o Chars("b") \o Chars(SAVE_EXT)) \in DOMAIN files
    /\ files[Chars("a") \o Chars("b") \o Chars(SAVE_EXT)] # files[last.val.path]

\* C11 (non-Object pass-through): sort_workflow returns its argument
\* unchanged, without error, whenever the argument is not an Object.
C11_NonObjectPassThrough ==
    (pc = "sorted_one" /\ ~IsDict(wf)) => result = Ok(wf)

C11_Witness ==
    /\ pc = "sorted_one"
    /\ wf = JList(<<Float07Noise>>)
    /\ result = Ok(JList(<<Float07Noise>>))

(***************************************************************************)
(* Calls of the JSON helpers on any JSON value.                            *)
(***************************************************************************)

\* Floats: 0.0100000011 lies just beyond epsilon of 0.01, 0.5 is its own
\* rounding, 1000000.0004 is large enough for the relative tolerance of
\* math.isclose to exceed epsilon.
FloatNearEpsilon == JFloat(FALSE, 0, 100000011)
FloatHalf == JFloat(FALSE, 5, 0)
FloatLarge == JFloat(FALSE, 10000000, 4000000)
JsonFloats == {Float07, Float07Noise, FloatNearEpsilon, FloatHalf, FloatLarge}

JsonLeaves == {JInt(1), JInt(2)} \cup JsonFloats

JsonArrays ==
    {JList(<<>>)}
    \cup {JList(<<a, b>>) : a, b \in {JInt(1), JInt(2), Float07, Float07Noise, FloatNearEpsilon}}

\* Objects hold their keys in either insertion order.
JsonInnerObjects ==
    {JDict(<<KV(k[1], a), KV(k[2], b)>>) :
        k \in {<<"x", "y">>, <<"y", "x">>}, a, b \in {JInt(1), Float07Noise}}

JsonInner == JsonLeaves \cup JsonArrays \cup JsonInnerObjects \cup {JList(<<JDict(<<KV("y", JInt(1)), KV("x", JInt(2))>>)>>)}

JsonObjects ==
    {JDict(<<KV(k[1], a), KV(k[2], b)>>) :
        k \in {<<"a", "b">>, <<"b", "a">>}, a, b \in JsonInner}

JsonValues == JsonInner \cup JsonObjects

RECURSIVE KeyOrders(_)
\* The values that hold the same key-value pairs as j, with the keys of the
\* Objects in any order at every nesting level.
KeyOrders(j) ==
    CASE j.t = "dict" ->
            {JDict([i \in 1..Len(j.v) |-> KV(j.v[p[i]].k, c[p[i]])]) :
                p \in Perms(Len(j.v)),
                c \in {f \in [1..Len(j.v) -> UNION {KeyOrders(j.v[i].v) : i \in 1..Len(j.v)}] :
                        \A i \in 1..Len(j.v) : f[i] \in KeyOrders(j.v[i].v)}}
      [] j.t = "list" ->
            {JList(c) :
                c \in {f \in [1..Len(j.v) -> UNION {KeyOrders(j.v[i]) : i \in 1..Len(j.v)}] :
                        \A i \in 1..Len(j.v) : f[i] \in KeyOrders(j.v[i])}}
      [] OTHER -> {j}

\* The Array with the elements of j in reverse order.
Reversed(j) == JList([i \in 1..Len(j.v) |-> j.v[Len(j.v) + 1 - i]])

InitJson == Start(JsonValues)

\* canonicalize_json(v)
CallCanonicalize ==
    /\ pc = "start"
    /\ Call(Ok(canonicalize_json(wf)), "canonical")

\* canonicalize_json(canonicalize_json(v))
CallCanonicalizeAgain ==
    /\ pc = "canonical"
    /\ sorted1' = Ok(canonicalize_json(result.val))
    /\ pc' = "canonical_twice"
    /\ UNCHANGED <<wf, other, rel, ignored, sorted2, result, files, last>>

\* normalize_float(x)
CallNormalize ==
    /\ pc = "start"
    /\ wf.t = "float"
    /\ Call(Ok([t |-> "float", v |-> normalize_float(wf.v)]), "normalized")

\* o' holds the key-value pairs of o in another key order.
PermuteKeys ==
    /\ pc = "start"
    /\ \E o \in KeyOrders(wf) \ {wf} :
        Derive(o, [kind |-> "permute", node |-> "", key |-> ""], <<>>)

\* The second Array holds the elements of the first in reverse order.
ReverseArray ==
    /\ pc = "start"
    /\ IsList(wf)
    /\ Reversed(wf) # wf
    /\ Derive(Reversed(wf), [kind |-> "reverse", node |-> "", key |-> ""], <<>>)

\* stringify(canonicalize_json(v)) of both values.
StringifyBoth ==
    /\ pc = "derived"
    /\ sorted1' = Ok(stringify(canonicalize_json(wf)))
    /\ sorted2' = Ok(stringify(canonicalize_json(other)))
    /\ pc' = "stringified"
    /\ UNCHANGED <<wf, other, rel, ignored, result, files, last>>

NextJson ==
    \/ CallCanonicalize
    \/ CallCanonicalizeAgain
    \/ CallNormalize
    \/ PermuteKeys
    \/ ReverseArray
    \/ StringifyBoth

SpecJson == InitJson /\ [][NextJson]_vars

\* C12 (idempotence of canonicalization): canonicalize_json applied to its
\* own result returns that result, for every JSON value, also for floats
\* close to the epsilon.
C12_Idempotent ==
    pc = "canonical_twice" => sorted1 = result

\* C13 (key-order invariance): two Objects that hold the same key-value
\* pairs in different key orders, at any nesting level, have the same
\* stringify(canonicalize_json(.)).
C13_KeyOrderInvariance ==
    (pc = "stringified" /\ rel.kind = "permute") => sorted1 = sorted2

C13_Witness ==
    /\ pc = "stringified"
    /\ rel.kind = "permute"
    /\ wf = JDict(<<KV("b", JDict(<<KV("y", Float07Noise), KV("x", JInt(1))>>)),
                    KV("a", JList(<<JInt(2), JInt(1)>>))>>)
    /\ other = JDict(<<KV("a", JList(<<JInt(2), JInt(1)>>)),
                       KV("b", JDict(<<KV("x", JInt(1)), KV("y", Float07Noise)>>))>>)
    /\ sorted1 = sorted2

C20_WithinEpsilon ==
    pc = "normalized" =>
        LET dh == result.val.v.hi - wf.v.hi
            d == dh * Giga + result.val.v.lo - wf.v.lo
        IN  /\ dh \in {-1, 0, 1}
            /\ d <= 10
            /\ -d <= 10

(***************************************************************************)
(* The persisted form: a sorted workflow is dumped, loaded again, sorted   *)
(* again and dumped again.                                                 *)
(***************************************************************************)

PersistNodes == GoodNodes \cup {NodeWith(JDict(<<KV("x", FloatNearEpsilon)>>))}

PersistGraphs ==
    {g \in UNION {GraphsOf(PersistNodes, n) : n \in 0..MaxNodes} : WellFormed(g)}

InitPersist == Start(PersistGraphs)

\* current_workflow = sort_workflow(prompt); dump(current_workflow, file,
\* separators=JSON_SEPARATORS)
DumpSorted ==
    /\ pc = "start"
    /\ \E s \in {sort_workflow(wf)} :
        /\ sorted1' = s
        /\ result' = IF s.ok THEN Ok(stringify(s.val)) ELSE s
    /\ pc' = "dumped"
    /\ UNCHANGED <<wf, other, rel, ignored, sorted2, files, last>>

\* workflow = load(file)
LoadDumped ==
    /\ pc = "dumped"
    /\ result.ok
    /\ other' = loads(result.val)
    /\ pc' = "loaded"
    /\ UNCHANGED <<wf, rel, ignored, sorted1, sorted2, result, files, last>>

\* sort_workflow of the loaded workflow, dumped again.
DumpSortedAgain ==
    /\ pc = "loaded"
    /\ \E s \in {sort_workflow(other)} :
        /\ sorted2' = s
        /\ last' = IF s.ok THEN Ok(stringify(s.val)) ELSE s
    /\ pc' = "dumped_again"
    /\ UNCHANGED <<wf, other, rel, ignored, sorted1, result, files>>

NextPersist ==
    \/ DumpSorted
    \/ LoadDumped
    \/ DumpSortedAgain

SpecPersist == InitPersist /\ [][NextPersist]_vars

\* C15 (stable persisted form): for every well-formed graph, dumping the
\* sorted workflow, loading the text, sorting again and dumping again
\* yields the same bytes.
C15_StablePersistedForm ==
    pc = "dumped_again" => last = result

(***************************************************************************)
(* Objects and references.  A heap is a sequence of node objects, an       *)
(* address is an index into it.  A workflow held by a caller is a dict     *)
(* whose values are the addresses of its node objects: [keys, refs].       *)
(* Assigning a key of a node object changes the cell every holder of its   *)
(* address sees; the values below a node are never assigned to.            *)
(***************************************************************************)

\* The workflow a caller reads through its addresses.
Deref(heap, obj) ==
    JDict([i \in 1..Len(obj.refs) |-> KV(obj.keys[i], heap[obj.refs[i]])])

\* A workflow whose node objects are put on the heap.
Stored(heap, workflow) ==
    [heap |-> heap \o [i \in 1..Len(workflow.v) |-> workflow.v[i].v],
     obj |-> [keys |-> [i \in 1..Len(workflow.v) |-> workflow.v[i].k],
              refs |-> [i \in 1..Len(workflow.v) |-> Len(heap) + i]]]

\* A variant that works on the node object itself instead of a copy.
NewNodeAliased(heap, node_ref) == node_ref

\* new_node = node_obj.copy(): the address of a new object.
NewNode(heap, node_ref) == Len(heap) + 1

\* heap with the object at address a replaced (a may be one past the end).
Assigned(heap, a, node) ==
    IF a > Len(heap) THEN Append(heap, node) ELSE [heap EXCEPT ![a] = node]

RECURSIVE RemapOnHeap(_, _, _, _, _)
\* The loop of remap_node_ids from the i-th node on: a node that is not a
\* dict is passed on by reference, a dict is copied and the copy's inputs
\* are assigned.  An exception leaves the loop.
RemapOnHeap(heap, refs, id_mapping, i, remapped) ==
    IF i > Len(refs) THEN [ok |-> TRUE, err |-> "", heap |-> heap, nodes |-> remapped]
    ELSE IF ~IsDict(heap[refs[i]])
    THEN RemapOnHeap(heap, refs, id_mapping, i + 1, Append(remapped, refs[i]))
    ELSE IF ~RemapNode(heap[refs[i]], id_mapping).ok
    THEN [ok |-> FALSE, err |-> RemapNode(heap[refs[i]], id_mapping).err,
          heap |-> heap, nodes |-> remapped]
    ELSE RemapOnHeap(Assigned(heap, NewNode(heap, refs[i]),
                              RemapNode(heap[refs[i]], id_mapping).val),
                     refs, id_mapping, i + 1,
                     Append(remapped, NewNode(heap, refs[i])))

\* clear_inputs(node), node an address.
ClearOnHeap(heap, node) ==
    IF IsDict(heap[node]) THEN [heap EXCEPT ![node] = SetKey(@, INPUTS_KEY, JDict(<<>>))]
    ELSE heap

\* A variant of the loop that clears in the first list only.
ClearLoopFirstOnly(heap, remapped, remapped_other, remapped_ignored, n) ==
    LET RECURSIVE from(_, _)
        from(h, m) ==
            IF m > Len(remapped_ignored) THEN h
            ELSE from(ClearOnHeap(h, remapped[remapped_ignored[m] + 1]), m + 1)
    IN  from(heap, n)

RECURSIVE ClearLoop(_, _, _, _, _)
\* for node_idx in remapped_ignored: clear_inputs(remapped[node_idx]), and
\* clear_inputs(remapped_other[node_idx]) if that index exists.
ClearLoop(heap, remapped, remapped_other, remapped_ignored, n) ==
    IF n > Len(remapped_ignored) THEN heap
    ELSE ClearLoop(
            IF remapped_ignored[n] < Len(remapped_other)
            THEN ClearOnHeap(ClearOnHeap(heap, remapped[remapped_ignored[n] + 1]),
                             remapped_other[remapped_ignored[n] + 1])
            ELSE ClearOnHeap(heap, remapped[remapped_ignored[n] + 1]),
            remapped, remapped_other, remapped_ignored, n + 1)

\* What a call on the heap yields: its outcome and the heap it leaves.
OnHeap(ret, heap) == [ret |-> ret, heap |-> heap]

\* The nodes a list of addresses holds.
NodesAt(heap, refs) == [i \in 1..Len(refs) |-> heap[refs[i]]]

\* are_sorted_workflows_equal after the clearing loop: the comparison, with
\* the two lists as they are when it is made.
EqualCleared(heap, remapped, remapped_other) ==
    [ret |-> Ok(compare_json(JList(NodesAt(heap, remapped)),
                             JList(NodesAt(heap, remapped_other))) = 0),
     heap |-> heap,
     remapped |-> NodesAt(heap, remapped),
     remapped_other |-> NodesAt(heap, remapped_other)]

\* are_sorted_workflows_equal after the first workflow is remapped to r1.
EqualRemapped(r1, other_obj, id_mapping, ignored_nodes) ==
    IF ~r1.ok THEN OnHeap(Raise(r1.err), r1.heap)
    ELSE IF \E n \in 1..Len(ignored_nodes) : ignored_nodes[n] \notin DOMAIN id_mapping
    THEN OnHeap(Raise("KeyError"), r1.heap)
    ELSE \* remap_node_ids(other_workflow), then the clearing loop
         LET r2 == RemapOnHeap(r1.heap, other_obj.refs,
                               IdMapping(Deref(r1.heap, other_obj)), 1, <<>>)
         IN  IF ~r2.ok THEN OnHeap(Raise(r2.err), r2.heap)
             ELSE EqualCleared(
                    ClearLoop(r2.heap, r1.nodes, r2.nodes,
                              [n \in 1..Len(ignored_nodes) |-> id_mapping[ignored_nodes[n]]], 1),
                    r1.nodes, r2.nodes)

\* are_sorted_workflows_equal(workflow, other_workflow, ignored_nodes) on
\* two dicts held at obj and other_obj.
EqualOnHeap(heap, obj, other_obj, ignored_nodes) ==
    EqualRemapped(RemapOnHeap(heap, obj.refs, IdMapping(Deref(heap, obj)), 1, <<>>),
                  other_obj, IdMapping(Deref(heap, obj)), ignored_nodes)

\* sort_workflow(workflow) on a dict held at obj: strip_metadata and
\* canonicalize_json build new dicts and assign only to those, so the
\* sorted workflow is held by new objects.
SortOnHeap(heap, obj) ==
    IF ~sort_workflow(Deref(heap, obj)).ok
    THEN OnHeap(sort_workflow(Deref(heap, obj)), heap)
    ELSE OnHeap(Ok(Stored(heap, sort_workflow(Deref(heap, obj)).val).obj),
                Stored(heap, sort_workflow(Deref(heap, obj)).val).heap)

RECURSIVE CompareLoop(_, _, _, _, _)
\* The loop of save_workflow over the existing files from the n-th on: each
\* file is loaded into new objects and compared with current_workflow; the
\* loop ends with the first equal file or the first exception.
CompareLoop(heap, current_workflow, workflows, ignored_nodes, n) ==
    IF n > Len(workflows) THEN OnHeap(Ok(FALSE), heap)
    ELSE LET c == EqualOnHeap(Stored(heap, workflows[n]).heap, current_workflow,
                              Stored(heap, workflows[n]).obj, ignored_nodes)
         IN  IF ~c.ret.ok \/ c.ret.val THEN c
             ELSE CompareLoop(c.heap, current_workflow, workflows, ignored_nodes, n + 1)

\* save_workflow from the comparison on: the text it dumps, unless a file
\* was equal or a comparison raised.
DumpAfter(c, current_workflow) ==
    IF ~c.ret.ok THEN c.ret
    ELSE IF c.ret.val THEN Raise("exists")
    ELSE Ok(stringify(Deref(c.heap, current_workflow)))

\* save_workflow from sort_workflow(prompt) on, prompt held at obj.
SaveOnHeap(sorted, workflows, ignored_nodes) ==
    IF ~sorted.ret.ok THEN sorted
    ELSE LET c == CompareLoop(sorted.heap, sorted.ret.val, workflows, ignored_nodes, 1)
         IN  OnHeap(DumpAfter(c, sorted.ret.val), c.heap)

\* The second arguments of the comparisons, and the workflows the files of
\* the directory hold.
MaxCompared == 2
HeapOthers ==
    UNION {GraphsOf({NodeWith(JDict(<<KV("x", JInt(1))>>)), JInt(1)}, n) : n \in 0..MaxNodes}
SavedWorkflows ==
    {JDict(<<KV("1", NodeWith(JDict(<<KV("x", JInt(2))>>)))>>),
     JDict(<<KV("1", NodeWith(JDict(<<KV("x", JInt(1))>>))),
             KV("2", NodeWith(JDict(<<KV("x", JInt(1))>>)))>>),
     JDict(<<KV("1", NodeWith(JDict(<<KV("x", JInt(2))>>))),
             KV("2", NodeWith(JDict(<<KV("x", Ref("1", 1))>>)))>>)}
SavedLists == UNION {[1..n -> SavedWorkflows] : n \in 0..MaxCompared}
HeapIgnoreLists(w) == IgnoreLists(w) \cup {[i \in 1..Len(w.v) |-> w.v[i].k]}

InitHeap == Start(AnyGraphs)

\* sort_workflow(G); sorted1 is G as its caller holds it afterwards.
HeapSort ==
    /\ pc = "start"
    /\ \E s \in {Stored(<<>>, wf)} :
        \E r \in {SortOnHeap(s.heap, s.obj)} :
            /\ sorted1' = Ok(Deref(r.heap, s.obj))
            /\ result' = IF r.ret.ok THEN Ok(Deref(r.heap, r.ret.val)) ELSE r.ret
    /\ pc' = "heap_sorted"
    /\ UNCHANGED <<wf, other, rel, ignored, sorted2, files, last>>

\* are_sorted_workflows_equal(G, o, ignored_nodes), o another object or G
\* itself; sorted1 and sorted2 are the arguments as held afterwards.
HeapEqual ==
    /\ pc = "start"
    /\ \E o \in HeapOthers \cup {wf} :
        \E ign \in HeapIgnoreLists(wf) :
            \E same \in {b \in BOOLEAN : b => o = wf} :
                \E s1 \in {Stored(<<>>, wf)} :
                    \E s2 \in {IF same THEN s1 ELSE Stored(s1.heap, o)} :
                        \E r \in {EqualOnHeap(s2.heap, s1.obj, s2.obj, ign)} :
                            /\ other' = o
                            /\ ignored' = ign
                            /\ rel' = [kind |-> IF same THEN "same_object" ELSE "objects",
                                       node |-> "", key |-> ""]
                            /\ sorted1' = Ok(Deref(r.heap, s1.obj))
                            /\ sorted2' = Ok(Deref(r.heap, s2.obj))
                            /\ result' = r.ret
    /\ pc' = "heap_compared"
    /\ UNCHANGED <<wf, files, last>>

\* save_workflow from sort_workflow(prompt) to the dump, in a directory
\* whose files hold the workflows ws.
HeapSave ==
    /\ pc = "start"
    /\ WellFormed(wf)
    /\ \E ws \in SavedLists :
        \E ign \in HeapIgnoreLists(wf) :
            \E s \in {Stored(<<>>, wf)} :
                \E r \in {SaveOnHeap(SortOnHeap(s.heap, s.obj), ws, ign)} :
                    /\ other' = JList(ws)
                    /\ ignored' = ign
                    /\ sorted1' = Ok(Deref(r.heap, s.obj))
                    /\ last' = r.ret
    /\ pc' = "heap_saved"
    /\ UNCHANGED <<wf, rel, sorted2, result, files>>

\* are_sorted_workflows_equal(G, o, ignored_nodes) with ignored nodes, o a
\* workflow of any length or G under other node ids; sorted1 and sorted2 are
\* the lists remapped and remapped_other as the final comparison reads them.
HeapIgnore ==
    /\ pc = "start"
    /\ Len(wf.v) > 0
    /\ \E o \in HeapOthers \cup {RenameIds(wf, m) : m \in Renamings(wf)} :
        \E ign \in HeapIgnoreLists(wf) \ {<<>>} :
            \E s1 \in {Stored(<<>>, wf)} :
                \E s2 \in {Stored(s1.heap, o)} :
                    \E r \in {EqualOnHeap(s2.heap, s1.obj, s2.obj, ign)} :
                        /\ other' = o
                        /\ ignored' = ign
                        /\ sorted1' = IF r.ret.ok THEN Ok(JList(r.remapped)) ELSE r.ret
                        /\ sorted2' = IF r.ret.ok THEN Ok(JList(r.remapped_other)) ELSE r.ret
                        /\ result' = r.ret
    /\ pc' = "heap_ignored"
    /\ UNCHANGED <<wf, rel, files, last>>

NextHeap ==
    \/ HeapSort
    \/ HeapEqual
    \/ HeapSave
    \/ HeapIgnore

SpecHeap == InitHeap /\ [][NextHeap]_vars

\* C16 (purity): sort_workflow and are_sorted_workflows_equal leave their
\* arguments as they were, also with a non-empty ignore list, and the text
\* save_workflow dumps after its comparisons is the sorted prompt with the
\* full inputs of the ignored nodes.
C16_Purity ==
    /\ pc = "heap_sorted" => sorted1 = Ok(wf)
    /\ pc = "heap_compared" => sorted1 = Ok(wf) /\ sorted2 = Ok(other)
    /\ pc = "heap_saved" =>
            /\ sorted1 = Ok(wf)
            /\ last.ok => last = Ok(stringify(sort_workflow(wf).val))

C16_Witness ==
    /\ pc = "heap_saved"
    /\ ignored = <<"1">>
    /\ Len(other.v) = MaxCompared
    /\ wf = JDict(<<KV("1", NodeWith(JDict(<<KV("x", JInt(1))>>))),
                    KV("2", NodeWith(JDict(<<KV("x", JInt(2))>>)))>>)
    /\ last = Ok(stringify(wf))

(***************************************************************************)
(* Calls of search_and_replace.                                            *)
(***************************************************************************)

MaxScanned == 2

\* The nodes of extra_pnginfo.workflow.nodes: ids 1 and 2 with the type
\* "A"; id 2 with a title, an S&R name and the type "B"; the id "1" as a
\* str, shown under the display name of type "B"; a node without id; a
\* node without type.
SnrNodes ==
    {JDict(<<KV("id", JInt(1)), KV("type", JStr("A"))>>),
     JDict(<<KV("id", JInt(2)), KV("type", JStr("A"))>>),
     JDict(<<KV("id", JInt(2)), KV("type", JStr("B")), KV("title", JStr("a")),
             KV("properties", JDict(<<KV("Node name for S&R", JStr("y"))>>))>>),
     JDict(<<KV("id", JStr("1")), KV("type", JStr("B"))>>),
     JDict(<<KV("type", JStr("A"))>>),
     JDict(<<KV("id", JInt(2)), KV("title", JStr("a"))>>)}

\* extra_pnginfo: absent, empty, or a workflow with up to MaxScanned nodes.
SnrInfos ==
    {JNull, JDict(<<>>)}
    \cup {JDict(<<KV("workflow", JDict(<<KV("nodes", JList(ns))>>))>>) :
            ns \in UNION {[1..n -> SnrNodes] : n \in 0..MaxScanned}}

\* prompt: absent, an empty dict, an empty str, node 1 only, both nodes, or
\* a str.
PromptBoth ==
    JDict(<<KV("1", NodeWith(JDict(<<KV("x", JInt(1))>>))),
            KV("2", NodeWith(JDict(<<KV("x", JStr("a")), KV("y", JInt(0))>>)))>>)
SnrPrompts ==
    {JNull, JDict(<<>>), JText(<<>>), PromptOne, PromptBoth, JText(stringify(PromptBoth))}

\* The placeholder %key.widget%.
Placeholder(key, widget) == <<37>> \o Chars(key) \o <<46>> \o Chars(widget) \o <<37>>

\* text: empty, without placeholder, one placeholder whose key is an id, a
\* type, a title, a display name, an S&R name or unknown, a placeholder
\* for a widget the node lacks, and a text with two placeholders.
SnrTexts ==
    {<<>>, Chars("a"),
     Placeholder("1", "x"), Placeholder("2", "x"), Placeholder("2", "y"),
     Placeholder("A", "x"), Placeholder("B", "x"), Placeholder("a", "x"),
     Placeholder("b", "x"), Placeholder("y", "x"), Placeholder("9", "x"),
     Placeholder("1", "y"),
     Chars("a") \o Placeholder("1", "x") \o Placeholder("9", "x")}

\* The output directory: empty, or holding PromptOne saved as a0b.json.
SnrDirs ==
    {NoFiles,
     Written(NoFiles, Chars("a") \o IntStr(0) \o Chars("b") \o Chars(SAVE_EXT),
             stringify(sort_workflow(PromptOne).val))}

\* is_counter_enabled and ignored_inputs_0 of a call, valid or not.
BoolStrings == {TRUE_VALUE, FALSE_VALUE, "yes"}
BadLink == <<JStr("1")>>
RawLinks == {NotConnected, LinkToOne, BadLink}

InitSnr ==
    /\ pc = "start"
    /\ wf \in SnrPrompts
    /\ other \in SnrInfos
    /\ sorted1 \in {Ok(text) : text \in SnrTexts}
    /\ rel = NoRel
    /\ ignored = <<>>
    /\ sorted2 = NoOutcome
    /\ result = NoOutcome
    /\ files \in SnrDirs
    /\ last = NoOutcome

\* search_and_replace(text, prompt, extra_pnginfo)
CallSearchAndReplace ==
    /\ pc = "start"
    /\ Call(search_and_replace(sorted1.val, wf, other), "replaced")

\* save_workflow with the prompt, without extra_pnginfo.
CallSaveWorkflow ==
    /\ pc = "start"
    /\ other = JNull
    /\ sorted1 = Ok(<<>>)
    /\ \E affixes \in Affixes, is_counter_enabled \in BoolStrings, raw_link \in RawLinks :
        \E existing_workflows \in find_files_with_ext_in_dir(files, WORKFLOW_EXTS) :
            \E call \in {save_workflow(files, existing_workflows, affixes[1],
                                       is_counter_enabled, affixes[2], raw_link, wf)} :
                /\ files' = call.dir
                /\ last' = call.ret
                /\ sorted2' = Ok(files)
                /\ rel' = [kind |-> is_counter_enabled, node |-> "", key |-> ""]
                /\ ignored' = raw_link
    /\ pc' = "returned"
    /\ UNCHANGED <<wf, other, sorted1, result>>

NextSnr ==
    \/ CallSearchAndReplace
    \/ CallSaveWorkflow

SpecSnr == InitSnr /\ [][NextSnr]_vars

\* C17 as stated (a falsy prompt never raises): save_workflow called with an
\* absent or falsy prompt raises nothing and returns workflow_id -1.
C17_FalsyPromptNeverRaises ==
    (pc = "returned" /\ ~Truthy(wf)) => last = Returned("failed", <<>>, -1)

\* C17 (falsy prompt is a pass-through): search_and_replace returns its text
\* unchanged when the text, the prompt or extra_pnginfo is absent or falsy;
\* save_workflow with an absent or falsy prompt leaves the directory as it
\* was and, given a boolean string and rawLink it accepts, raises nothing
\* and returns workflow_id -1.
C17_FalsyPromptPassThrough ==
    /\ (pc = "replaced" /\ (sorted1.val = <<>> \/ ~Truthy(wf) \/ ~Truthy(other))) =>
            result = sorted1
    /\ (pc = "returned" /\ ~Truthy(wf)) =>
            /\ files = sorted2.val
            /\ (parse_bool_str(rel.kind).ok /\ ignored # BadLink) =>
                    last = Returned("failed", <<>>, -1)

C17_Witness ==
    /\ pc = "returned"
    /\ wf = JDict(<<>>)
    /\ rel.kind = TRUE_VALUE
    /\ ignored = LinkToOne
    /\ files # NoFiles
    /\ last = Returned("failed", <<>>, -1)

\* nodes of search_and_replace, and whether two of them have the same id.
NodesOf(extra_pnginfo) ==
    to_list(JsonOptGet(JsonOptGet(ParsedJson(extra_pnginfo), "workflow"), "nodes"))
HasDuplicateIds(nodes) ==
    \E i, j \in 1..Len(nodes) :
        /\ i # j
        /\ find_node_id(nodes[i]).ok
        /\ find_node_id(nodes[i]) = find_node_id(nodes[j])

\* C18 as stated (duplicate ids always raise): when the node list holds two
\* nodes with the same id, search_and_replace raises, whatever the text.
C18_DuplicateIdsAlwaysRaise ==
    (pc = "replaced" /\ HasDuplicateIds(NodesOf(other))) => ~result.ok

\* C18 (duplicate-id rejection): when the node list holds two nodes with the
\* same id and neither the text nor the prompt is empty, so that the nodes
\* are scanned, search_and_replace raises ValueError and returns no text,
\* whatever placeholders the text contains.
C18_DuplicateIdRejection ==
    (pc = "replaced" /\ HasDuplicateIds(NodesOf(other)) /\ sorted1.val # <<>> /\ Truthy(wf)) =>
        result = Raise("ValueError")

\* Ids 1 and "1" are the same id; the text holds no placeholder.
C18_Witness ==
    /\ pc = "replaced"
    /\ NodesOf(other) = <<JDict(<<KV("id", JInt(1)), KV("type", JStr("A"))>>),
                          JDict(<<KV("id", JStr("1")), KV("type", JStr("B"))>>)>>
    /\ sorted1 = Ok(Chars("a"))
    /\ wf = PromptOne
    /\ result = Raise("ValueError")

\* C19 (no placeholder is left silently): when search_and_replace scans a
\* node list and returns a text, no placeholder is left in it; a key that
\* is ambiguous or matches nothing raises ValueError.
C19_NoPlaceholderLeft ==
    (pc = "replaced" /\ sorted1.val # <<>> /\ Truthy(wf) /\ NodesOf(other) # <<>>
        /\ result.ok) =>
        FindAll(result.val, 1) = <<>>

(***************************************************************************)
(* strip_metadata, remap_node_ids and sort_workflow, field by field        *)
(***************************************************************************)

\* The fields of Object a are the fields of Object b without the names in
\* drop and without the field except, each with the value it has in b.
SameFieldsBut(a, b, drop, except) ==
    /\ IsDict(a)
    /\ KeySet(a) = KeySet(b) \ drop
    /\ Len(a.v) = Cardinality(KeySet(a))
    /\ \A k \in KeySet(a) \ except : Get(a, k) = Get(b, k)

\* C21: when strip_metadata(G) returns, the result has the NodeIds of G in
\* the order of G; a node that is not an Object is returned as it is; an
\* Object node loses the top-level fields _meta and is_changed and the input
\* _displayed_text, and keeps every other top-level field and every other
\* input with its value.
C21_StripFrame ==
    (pc = "stripped" /\ result.ok) =>
        /\ IsDict(result.val)
        /\ Keys(result.val) = Keys(wf)
        /\ \A i \in 1..Len(wf.v) :
            IF ~IsDict(wf.v[i].v) THEN result.val.v[i].v = wf.v[i].v
            ELSE /\ SameFieldsBut(result.val.v[i].v, wf.v[i].v,
                                  {"_meta", "is_changed"}, {"inputs"})
                 /\ SameFieldsBut(Get(result.val.v[i].v, "inputs"), Get(wf.v[i].v, "inputs"),
                                  {"_displayed_text"}, {})

\* strip_metadata returned for a workflow of two nodes: one that carries
\* _meta, is_changed, _displayed_text and other fields, one that is not an
\* Object.
C21_Witness ==
    /\ pc = "stripped"
    /\ result.ok
    /\ Len(wf.v) = 2
    /\ IsDict(wf.v[1].v)
    /\ wf.v[1].v = RichNode
    /\ ~IsDict(wf.v[2].v)
    /\ KeySet(result.val.v[1].v) = {"class_type", "inputs"}
    /\ KeySet(Get(result.val.v[1].v, "inputs")) = {"x", "y"}

\* The iteration position (from 0) of NodeId id in workflow w.
PositionOf(w, id) == (CHOOSE i \in 1..Len(w.v) : w.v[i].k = id) - 1

\* Input value v of a node of w, as remap_node_ids has to return it.
RemappedValue(w, v) ==
    IF IsList(v) /\ Len(v.v) = 2 /\ v.v[1].t = "str"
    THEN JList(<<JInt(PositionOf(w, v.v[1].v)), v.v[2]>>)
    ELSE v

\* C22: when remap_node_ids(G) returns for a G of n nodes, the list has n
\* elements and the mapping sends each NodeId to its iteration position; the
\* element at position i is node i of G with every Reference [id, k] of its
\* inputs turned into [position(id), k], position(id) in 0..n-1, every other
\* input and every other field as it was; a node that is not an Object is
\* returned as it is.
C22_RemapResult ==
    (pc = "remapped" /\ result.ok) =>
        /\ Len(result.val.nodes) = Len(wf.v)
        /\ DOMAIN result.val.id_mapping = KeySet(wf)
        /\ \A i \in 1..Len(wf.v) :
            /\ result.val.id_mapping[wf.v[i].k] = i - 1
            /\ IF ~IsDict(wf.v[i].v) THEN result.val.nodes[i] = wf.v[i].v
               ELSE /\ SameFieldsBut(result.val.nodes[i], wf.v[i].v, {}, {"inputs"})
                    /\ Keys(Get(result.val.nodes[i], "inputs")) = Keys(Get(wf.v[i].v, "inputs"))
                    /\ \A n \in 1..Len(Get(wf.v[i].v, "inputs").v) :
                        LET v == Get(wf.v[i].v, "inputs").v[n].v
                            out == Get(result.val.nodes[i], "inputs").v[n].v
                        IN  /\ out = RemappedValue(wf, v)
                            /\ out # v => out.v[1].v \in 0..(Len(wf.v) - 1)

\* remap_node_ids returned for a workflow of two nodes in which a Reference
\* to the second node became [1, k] and a literal two-element array stayed.
C22_Witness ==
    /\ pc = "remapped"
    /\ result.ok
    /\ Len(wf.v) = 2
    /\ IsDict(wf.v[1].v)
    /\ IsDict(wf.v[2].v)
    /\ wf.v[1].v = NodeWith(JDict(<<KV("x", Ref("2", 0))>>))
    /\ result.val.nodes[1] = NodeWith(JDict(<<KV("x", JList(<<JInt(1), JInt(0)>>))>>))
    /\ wf.v[2].v = NodeWith(JDict(<<KV("x", LiteralPair)>>))
    /\ result.val.nodes[2] = wf.v[2].v

ClearedIf(cleared, out, node) ==
    IF cleared /\ IsDict(node)
    THEN SameFieldsBut(out, node, {}, {"inputs"}) /\ Get(out, "inputs") = JDict(<<>>)
    ELSE out = node

\* The indices (from 0) in the first workflow of the NodeIds of ignored.
IgnoredPositions == {PositionOf(wf, ignored[n]) : n \in 1..Len(ignored)}

\* C24: in are_sorted_workflows_equal(a, b, ignored) each ignored NodeId of a
\* stands for its index i in a; when the two lists are compared, the node at
\* index i of the first remapped list has an empty inputs, and so has the
\* node at index i of the second list if it has one, whatever its NodeId
\* was; every other node is as remap_node_ids returned it; and the call
\* raises nothing over a second list that is shorter.
C24_PositionalIgnore ==
    pc = "heap_ignored" =>
        /\ (remap_node_ids(wf).ok /\ remap_node_ids(other).ok) => result.ok
        /\ result.ok =>
            /\ Len(sorted1.val.v) = Len(wf.v)
            /\ Len(sorted2.val.v) = Len(other.v)
            /\ \A i \in 1..Len(wf.v) :
                ClearedIf((i - 1) \in IgnoredPositions,
                          sorted1.val.v[i], remap_node_ids(wf).val.nodes[i])
            /\ \A i \in 1..Len(other.v) :
                ClearedIf((i - 1) \in IgnoredPositions,
                          sorted2.val.v[i], remap_node_ids(other).val.nodes[i])

\* The comparison returned with the second NodeId of a ignored: b holds the
\* same nodes under other NodeIds and its node at index 1 was cleared too.
C24_Witness ==
    /\ pc = "heap_ignored"
    /\ result.ok
    /\ ignored = <<"2">>
    /\ Keys(wf) = <<"1", "2">>
    /\ Keys(other) = <<"2", "3">>
    /\ IsDict(wf.v[2].v)
    /\ Get(wf.v[2].v, "inputs") # JDict(<<>>)
    /\ IsDict(sorted2.val.v[2])
    /\ Get(sorted2.val.v[2], "inputs") = JDict(<<>>)
    /\ Get(sorted1.val.v[2], "inputs") = JDict(<<>>)

\* C25: a call of are_sorted_workflows_equal whose ignore list holds a NodeId
\* that is not a key of the first workflow raises and returns no Bool; when
\* both workflows can be remapped the error is the KeyError of the lookup
\* of that NodeId.
C25_UnknownIgnoredIdRaises ==
    (pc = "compared_ignoring"
     /\ \E n \in 1..Len(ignored) : ~IsDict(wf) \/ ignored[n] \notin KeySet(wf)) =>
        /\ ~result.ok
        /\ (IsDict(wf) /\ IsDict(other) /\ remap_node_ids(wf).ok) => result = Raise("KeyError")

\* The call raised KeyError for a workflow of one node that can be remapped
\* and the ignore list ["2"].
C25_Witness ==
    /\ pc = "compared_ignoring"
    /\ IsDict(wf)
    /\ Keys(wf) = <<"1">>
    /\ other = wf
    /\ remap_node_ids(wf).ok
    /\ ignored = <<"2">>
    /\ result = Raise("KeyError")

\* The text of a file of the directory does not hold an Object, or holds a
\* workflow with a dangling Reference.
BadFile(text) == ~IsDict(loads(text)) \/ HasDanglingReference(loads(text))

\* The sorted prompt of the last call, if the call got as far as the loop
\* over the existing files.
Examining ==
    IF last # NoOutcome /\ Truthy(wf) /\ sort_workflow(wf).ok /\ IsDict(sort_workflow(wf).val)
    THEN sort_workflow(wf) ELSE Raise("none")

\* C26: when save_workflow examines an existing .json file that does not
\* hold an Object or holds a dangling Reference, before a file equivalent to
\* the prompt, the call raises and leaves the directory as it was: no new
\* file is written.
C26_ErrorsNotMasked ==
    (Examining.ok
     /\ \E i \in 1..Len(sorted1.val) :
            /\ BadFile(sorted2.val[sorted1.val[i]])
            /\ \A j \in 1..(i - 1) :
                are_sorted_workflows_equal(Examining.val, loads(sorted2.val[sorted1.val[j]]), <<>>)
                    # Ok(TRUE)) =>
        /\ ~last.ok
        /\ last.err \in {"ValueError", "KeyError"}
        /\ files = sorted2.val

\* The last call examined "y.json", which holds an Array, before "x.json",
\* which holds the prompt: it raised ValueError and wrote nothing.
C26_Witness ==
    /\ Examining.ok
    /\ wf = PromptOne
    /\ sorted1 = Ok(<<Chars("y") \o Chars(SAVE_EXT), Chars("x") \o Chars(SAVE_EXT)>>)
    /\ sorted2.val[Chars("y") \o Chars(SAVE_EXT)] = stringify(JList(<<>>))
    /\ last = Raise("ValueError")
    /\ files = sorted2.val

\* C29 (stable workflow id): after a call with the counter enabled wrote
\* prompt P to a new file and returned workflow_id c, a later call with P,
\* the same prefix and suffix and the counter enabled returns workflow_id c.
C29_StableWorkflowId ==
    pc = "saved_again" => (last.ok /\ last.val.workflow_id = result.val)

(***************************************************************************)
(* The two variants of the engine on the same arguments.                   *)
(***************************************************************************)

InitLegacy == Start(Workflows)

\* sort_workflow(G) of custom_nodes (result) and of nodes (sorted1).
SortInBoth ==
    /\ pc = "start"
    /\ result' = sort_workflow(wf)
    /\ sorted1' = nodes_sort_workflow(wf)
    /\ pc' = "sorted_in_both"
    /\ UNCHANGED <<wf, other, rel, ignored, sorted2, files, last>>

\* are_sorted_workflows_equal(G, o, []) of custom_nodes (result) and
\* are_sorted_workflows_equal(G, o) of nodes (sorted1); o is G, G with its
\* ids renamed or its nodes in another order, or another value.
CompareInBoth ==
    /\ pc = "start"
    /\ \E o \in {wf} \cup NonDicts \cup HeapOthers
                \cup (IF IsDict(wf)
                      THEN {RenameIds(wf, m) : m \in Renamings(wf)}
                           \cup {JDict([i \in 1..Len(wf.v) |-> wf.v[p[i]]]) : p \in Perms(Len(wf.v))}
                      ELSE {}) :
        /\ other' = o
        /\ result' = are_sorted_workflows_equal(wf, o, <<>>)
        /\ sorted1' = nodes_are_sorted_workflows_equal(wf, o)
    /\ pc' = "compared_in_both"
    /\ UNCHANGED <<wf, rel, ignored, sorted2, files, last>>

NextLegacy ==
    \/ SortInBoth
    \/ CompareInBoth

SpecLegacy == InitLegacy /\ [][NextLegacy]_vars

\* C27: for Object workflows a and b on which are_sorted_workflows_equal of
\* src/nodes returns a Bool, are_sorted_workflows_equal(a, b, []) of
\* src/custom_nodes returns the same Bool; and for every value on which
\* sort_workflow of src/nodes returns, sort_workflow of src/custom_nodes
\* returns the same value.
C27_SubsumesLegacy ==
    /\ (pc = "compared_in_both" /\ IsDict(wf) /\ IsDict(other) /\ sorted1.ok)
            => result = sorted1
    /\ (pc = "sorted_in_both" /\ sorted1.ok) => result = sorted1

\* Both variants returned True for a workflow of two nodes with a Reference
\* and the same workflow under other ids.
C27_Witness ==
    /\ pc = "compared_in_both"
    /\ IsDict(wf)
    /\ IsDict(other)
    /\ Keys(wf) = <<"1", "2">>
    /\ Keys(other) = <<"2", "1">>
    /\ \E i \in 1..2 : IsDict(wf.v[i].v) /\ wf.v[i].v = NodeWith(JDict(<<KV("x", Ref("2", 0))>>))
    /\ sorted1 = Ok(TRUE)
    /\ result = Ok(TRUE)

(***************************************************************************)
(* Two workflows drawn independently, sorted and compared.                 *)
(***************************************************************************)

\* G' is any workflow of the pool.
AnyOther ==
    /\ pc = "start"
    /\ \E g \in Graphs : Derive(g, [kind |-> "any", node |-> "", key |-> ""], <<>>)

NextPairs ==
    \/ AnyOther
    \/ SortBoth
    \/ Compare

SpecPairs == Init /\ [][NextPairs]_vars

\* Under the bijection m of NodeIds, every node of w, stripped and
\* canonicalized, with its References taken through m, is the node of o
\* under the image of its NodeId, stripped and canonicalized.
EquivalentUnder(w, o, m) ==
    \A id \in KeySet(w) :
        CanonicalContent(Get(RenameIds(w, m), m[id])) = CanonicalContent(Get(o, m[id]))

\* C28 (no false positives): whenever the comparison of the two sorted
\* workflows returns True, some bijection between the NodeIds of G and of G'
\* makes every node of G equal to its image in G', References taken through
\* the bijection and every other input value identical.
C28_NoFalsePositives ==
    (pc = "done" /\ rel.kind = "any" /\ result = Ok(TRUE)) =>
        \E m \in [KeySet(wf) -> KeySet(other)] :
            /\ \A a, b \in KeySet(wf) : m[a] = m[b] => a = b
            /\ {m[a] : a \in KeySet(wf)} = KeySet(other)
            /\ EquivalentUnder(wf, other, m)

(***************************************************************************)
(* Calls of map_unique_value_from_node on one node after the other, with   *)
(* one value_to_id_map and one duplicates_set.                             *)
(***************************************************************************)

MaxProcessed == 4

\* The nodes processed: three with the type "A"; two with the S&R name "y",
\* one of them with a title; a node whose S&R name is the empty str; a node
\* without id; a node without type.
UniqueNodes ==
    {JDict(<<KV("id", JInt(1)), KV("type", JStr("A"))>>),
     JDict(<<KV("id", JInt(2)), KV("type", JStr("A"))>>),
     JDict(<<KV("id", JInt(3)), KV("type", JStr("A"))>>),
     JDict(<<KV("id", JInt(2)), KV("type", JStr("B")), KV("title", JStr("a")),
             KV("properties", JDict(<<KV("Node name for S&R", JStr("y"))>>))>>),
     JDict(<<KV("id", JInt(4)), KV("type", JStr("B")),
             KV("properties", JDict(<<KV("Node name for S&R", JStr("y"))>>))>>),
     JDict(<<KV("id", JInt(3)), KV("type", JStr("A")),
             KV("properties", JDict(<<KV("Node name for S&R", JStr(""))>>))>>),
     JDict(<<KV("type", JStr("A"))>>),
     JDict(<<KV("id", JInt(4))>>)}

\* The three retrieve_fn search_and_replace passes, with the
\* is_fail_on_missing it passes along with each.
RetrieveFns == {"name", "snr", "type"}
retrieve_fn(kind, node) ==
    CASE kind = "name" -> find_node_display_name(node)
      [] kind = "snr" -> find_node_snr(node)
      [] kind = "type" -> find_node_type(node)
IsFailOnMissing(kind) == kind # "snr"

\* map_unique_value_from_node(node, retrieve_fn, value_to_id_map,
\* duplicates_set, is_fail_on_missing) as one call: find_node_id(node) is
\* evaluated once the value was found truthy.
CallMapUnique(node, kind, m) ==
    IF retrieve_fn(kind, node).ok /\ ~IsFalsy(retrieve_fn(kind, node).val)
        /\ ~find_node_id(node).ok
    THEN find_node_id(node)
    ELSE map_unique_value_from_node(retrieve_fn(kind, node),
            IF find_node_id(node).ok THEN find_node_id(node).val ELSE <<>>,
            m, IsFailOnMissing(kind))

\* other is the list of the nodes processed, result the map and the set.
InitUnique ==
    /\ pc = "scanning"
    /\ wf = JNull
    /\ other = JList(<<>>)
    /\ rel \in {[kind |-> kind, node |-> "", key |-> ""] : kind \in RetrieveFns}
    /\ ignored = <<>>
    /\ sorted1 = NoOutcome
    /\ sorted2 = NoOutcome
    /\ result = Ok(EmptyMap)
    /\ files = NoFiles
    /\ last = NoOutcome

\* One call; an exception leaves the map and the set as they were and ends
\* the scan.
ProcessNode ==
    /\ pc = "scanning"
    /\ Len(other.v) < MaxProcessed
    /\ \E node \in UniqueNodes :
        \E out \in {CallMapUnique(node, rel.kind, result.val)} :
            /\ wf' = node
            /\ last' = out
            /\ other' = IF out.ok THEN JList(Append(other.v, node)) ELSE other
            /\ result' = IF out.ok THEN out ELSE result
            /\ pc' = IF out.ok THEN "scanning" ELSE "raised"
    /\ UNCHANGED <<rel, ignored, sorted1, sorted2, files>>

NextUnique == ProcessNode

SpecUnique == InitUnique /\ [][NextUnique]_vars

\* The values a retrieve_fn yields for the nodes above.
UniqueValues == {Chars(s) : s \in {"", "a", "b", "A", "B", "y"}}

\* The positions of the processed nodes that produced the value v.
Producers(v) ==
    {i \in 1..Len(other.v) :
        /\ retrieve_fn(rel.kind, other.v[i]).ok
        /\ retrieve_fn(rel.kind, other.v[i]).val.some
        /\ retrieve_fn(rel.kind, other.v[i]).val.str = v}

\* The bookkeeping of the value v is exact.
ExactFor(v) ==
    /\ v \in DOMAIN result.val.map <=> Cardinality(Producers(v)) = 1
    /\ v \in DOMAIN result.val.map =>
            \A i \in Producers(v) : result.val.map[v] = find_node_id(other.v[i]).val
    /\ v \in result.val.dups <=> Cardinality(Producers(v)) >= 2

====
